---------------------------- MODULE Spec2Model ----------------------------
(***************************************************************************)
(* F1 lap time calculator: the lap/sector time engine (LapSimulator), the  *)
(* car (Car), the circuit (Circuit) and the helper formulas of utils.py.   *)
(*                                                                         *)
(* Numbers.  The program computes in floating point; the model computes in *)
(* fixed point with integer division rounding down:                        *)
(*   - a multiplier, probability or grip is an integer in units of 1/FS    *)
(*     (1.0 is FS);                                                        *)
(*   - a time is an integer number of milliseconds;                        *)
(*   - a length is in metres, a fuel load in kilograms, a temperature in   *)
(*     degrees Celsius, a power in horsepower.                             *)
(* A Python dict is a TLA+ record (a function on its keys), so an absent   *)
(* key is a key outside DOMAIN.                                            *)
(***************************************************************************)
EXTENDS Integers, Sequences, FiniteSets, TLC

\* The fixed-point scale of multipliers: 1.0 is FS.
FS == 100 * 100

Max(a, b) == IF a >= b THEN a ELSE b

Min(a, b) == IF a <= b THEN a ELSE b

Abs(a) == IF a >= 0 THEN a ELSE -a

\* dict.get(key, default)
Get(d, key, default) == IF key \in DOMAIN d THEN d[key] ELSE default

RECURSIVE SumSeq(_)
\* sum(list)
SumSeq(s) == IF s = <<>> THEN 0 ELSE s[1] + SumSeq(Tail(s))

(***************************************************************************)
(* Reference data: data/tires.json, data/weather_presets.json and          *)
(* data/circuits.json are loaded by load_json_data and are not part of the *)
(* source tree; the tables below have the fields the program reads.        *)
(***************************************************************************)
tire_compounds ==
    [ soft   |-> [grip_modifier |-> 10500, optimal_temp_range |-> <<90, 110>>,
                  peak_performance_laps |-> 2, degradation_rate |-> 300,
                  life_span |-> 15],
      medium |-> [grip_modifier |-> 10000, optimal_temp_range |-> <<85, 105>>,
                  peak_performance_laps |-> 4, degradation_rate |-> 150,
                  life_span |-> 25],
      hard   |-> [grip_modifier |-> 9600, optimal_temp_range |-> <<80, 100>>,
                  peak_performance_laps |-> 6, degradation_rate |-> 80,
                  life_span |-> 40],
      wet    |-> [grip_modifier |-> 8000, optimal_temp_range |-> <<60, 80>>,
                  peak_performance_laps |-> 3, degradation_rate |-> 200,
                  life_span |-> 30] ]

tire_temperature_effects ==
    [ cold       |-> [temp_threshold |-> 70,  grip_loss |-> 1500],
      overheated |-> [temp_threshold |-> 120, grip_loss |-> 2000] ]

weather_conditions ==
    [ dry        |-> [name |-> "Dry", grip_modifier |-> 10000,
                      speed_modifier |-> 10000, mistake_probability |-> 200,
                      optimal_tire |-> <<"soft", "medium", "hard">>],
      heavy_rain |-> [name |-> "Heavy Rain", grip_modifier |-> 7000,
                      speed_modifier |-> 8000, mistake_probability |-> 1500,
                      optimal_tire |-> <<"wet">>] ]

track_conditions ==
    [ green       |-> [grip_modifier |-> 9500],
      rubbered_in |-> [grip_modifier |-> 10000],
      dusty       |-> [grip_modifier |-> 9000] ]

circuits ==
    [ monza  |-> [name |-> "Autodromo Nazionale Monza", country |-> "Italy",
                  length |-> 5800, base_lap_time |-> 80000, difficulty |-> 6000,
                  sectors |-> << [number |-> 1, length |-> 2000, turns |-> 3,
                                  type |-> "high_speed"],
                                 [number |-> 2, length |-> 1900, turns |-> 4,
                                  type |-> "high_speed", elevation_change |-> 10],
                                 [number |-> 3, length |-> 1900, turns |-> 4,
                                  type |-> "high_speed"] >>,
                  drs_zones |-> << [sector |-> 1], [sector |-> 3] >>],
      monaco |-> [name |-> "Circuit de Monaco", country |-> "Monaco",
                  length |-> 3300, base_lap_time |-> 71000, difficulty |-> 9500,
                  sectors |-> << [number |-> 1, length |-> 1100, turns |-> 6,
                                  type |-> "low_speed", elevation_change |-> 30],
                                 [number |-> 2, length |-> 1200, turns |-> 7,
                                  type |-> "medium_speed"],
                                 [number |-> 3, length |-> 1000, turns |-> 6,
                                  type |-> "low_speed"] >>,
                  drs_zones |-> << [sector |-> 3] >>],
      \* one 5 km segment of 10 turns, base lap time 100 s
      oval   |-> [name |-> "Test Oval", country |-> "None",
                  length |-> 5000, base_lap_time |-> 100000,
                  sectors |-> << [number |-> 1, length |-> 5000, turns |-> 10,
                                  type |-> "medium_speed"] >>],
      \* a short straight with a DRS zone and no base lap time
      strip  |-> [name |-> "Test Strip", country |-> "None", length |-> 400,
                  sectors |-> << [number |-> 1, length |-> 400, turns |-> 1,
                                  type |-> "high_speed"] >>,
                  drs_zones |-> << [sector |-> 1] >>] ]

(***************************************************************************)
(* Circuit (modules/circuit.py).  A Circuit object is the record of its    *)
(* attributes.                                                             *)
(***************************************************************************)
\* A raised ValueError.
ValueError == [raised |-> "ValueError"]

\* x is a raised error.
Raised(x) == "raised" \in DOMAIN x

\* Circuit.__init__ taking the first circuit of the reference data for a
\* name that is not in it.
CircuitDefaulting(circuit_name) ==
    LET data == IF circuit_name \in DOMAIN circuits THEN circuits[circuit_name]
                ELSE circuits.monza
    IN  [ name          |-> circuit_name,
          full_name     |-> data.name,
          country       |-> data.country,
          length        |-> data.length,
          sectors       |-> data.sectors,
          drs_zones     |-> Get(data, "drs_zones", <<>>),
          base_lap_time |-> Get(data, "base_lap_time", 0),
          difficulty    |-> Get(data, "difficulty", 7000) ]

\* Circuit.__init__: the new Circuit, or the ValueError it raises for a name
\* that is not in the reference data.
Circuit(circuit_name) ==
    IF circuit_name \notin DOMAIN circuits THEN ValueError
    ELSE
    LET data == circuits[circuit_name]
    IN  [ name          |-> circuit_name,
          full_name     |-> data.name,
          country       |-> data.country,
          length        |-> data.length,
          sectors       |-> data.sectors,
          drs_zones     |-> Get(data, "drs_zones", <<>>),
          base_lap_time |-> Get(data, "base_lap_time", 0),
          difficulty    |-> Get(data, "difficulty", 7000) ]

\* Circuit.create_custom_circuit: no DRS zones, base lap time length / 70 s.
create_custom_circuit(name, length, sectors) ==
    [ name          |-> "custom",
      full_name     |-> name,
      country       |-> "Custom",
      length        |-> length,
      sectors       |-> sectors,
      drs_zones     |-> <<>>,
      base_lap_time |-> (length * 1000) \div 70,
      difficulty    |-> 8000 ]

\* The value None.
None == [none |-> TRUE]

\* Circuit.get_sector_data: the first sector of the list with that number.
get_sector_data(circuit, sector_number) ==
    LET hits == { i \in 1..Len(circuit.sectors) :
                    circuit.sectors[i].number = sector_number }
    IN  IF hits = {} THEN None
        ELSE circuit.sectors[CHOOSE i \in hits : \A j \in hits : i <= j]

get_total_sectors(circuit) == Len(circuit.sectors)

\* The circuit has a sector of that number.
OnTrack(circuit, sector_number) ==
    \E i \in 1..Len(circuit.sectors) : circuit.sectors[i].number = sector_number

has_drs_in_sector(circuit, sector_number) ==
    \E i \in 1..Len(circuit.drs_zones) :
        circuit.drs_zones[i].sector = sector_number

\* calculate_sector_difficulty without the clamp to [0.5, 1.2].
calculate_sector_difficulty_unclamped(circuit, sector_number) ==
    LET sector == get_sector_data(circuit, sector_number)
    IN  IF sector = None THEN FS
        ELSE LET turn_effect == Min(3000, (sector.turns * 1000 * 1000) \div sector.length)
                 t == Get(sector, "type", "medium_speed")
                 type_effect == CASE t = "low_speed"    -> 2000
                                  [] t = "medium_speed" -> 1000
                                  [] t = "high_speed"   -> -1000
                                  [] OTHER              -> 1000
                 elevation_effect == Abs(Get(sector, "elevation_change", 0)) * 50
             IN  8000 + turn_effect + type_effect + elevation_effect

\* calculate_sector_difficulty with the turn density in turns per metre
\* (turns / length for turns / (length / 1000)).
calculate_sector_difficulty_per_metre(circuit, sector_number) ==
    LET sector == get_sector_data(circuit, sector_number)
    IN  IF sector = None THEN FS
        ELSE LET turn_effect == Min(3000, (sector.turns * 1000) \div sector.length)
                 t == Get(sector, "type", "medium_speed")
                 type_effect == CASE t = "low_speed"    -> 2000
                                  [] t = "medium_speed" -> 1000
                                  [] t = "high_speed"   -> -1000
                                  [] OTHER              -> 1000
                 elevation_effect == Abs(Get(sector, "elevation_change", 0)) * 50
             IN  Max(5000, Min(12000, 8000 + turn_effect + type_effect
                                      + elevation_effect))

\* Circuit.calculate_sector_difficulty, in units of 1/FS.
calculate_sector_difficulty(circuit, sector_number) ==
    LET sector == get_sector_data(circuit, sector_number)
    IN  IF sector = None THEN FS
        ELSE LET base_difficulty == 8000
                 \* turns / (length / 1000) * 0.1, capped at 0.3
                 turn_effect == Min(3000, (sector.turns * 1000 * 1000) \div sector.length)
                 t == Get(sector, "type", "medium_speed")
                 type_effect == CASE t = "low_speed"    -> 2000
                                  [] t = "medium_speed" -> 1000
                                  [] t = "high_speed"   -> -1000
                                  [] OTHER              -> 1000
                 elevation_effect == Abs(Get(sector, "elevation_change", 0)) * 50
                 difficulty == base_difficulty + turn_effect + type_effect
                               + elevation_effect
             IN  Max(5000, Min(12000, difficulty))

\* Circuit.get_sector_base_time, in milliseconds.
get_sector_base_time(circuit, sector_number) ==
    LET sector == get_sector_data(circuit, sector_number)
    IN  IF sector = None THEN 0
        ELSE LET base_sector_time ==
                     (circuit.base_lap_time * sector.length) \div circuit.length
                 difficulty_modifier ==
                     calculate_sector_difficulty(circuit, sector_number)
             IN  (base_sector_time * difficulty_modifier) \div FS


\* Circuit.get_average_speed_estimate, in km/h.
get_average_speed_estimate(circuit, sector_number) ==
    LET sector == get_sector_data(circuit, sector_number)
    IN  IF sector = None THEN 200
        ELSE LET t == Get(sector, "type", "medium_speed")
                 base_speed == CASE t = "low_speed"    -> 120
                                 [] t = "medium_speed" -> 180
                                 [] t = "high_speed"   -> 280
                                 [] OTHER              -> 180
                 \* turn density * 15, capped at 50
                 speed_reduction == Min(50, (sector.turns * 1000 * 15) \div sector.length)
             IN  Max(80, base_speed - speed_reduction)

\* Circuit._classify_circuit_type: the mean of the speed estimates of the
\* numbers 1..get_total_sectors() against 220 and 140; the division by the
\* number of sectors raises when there is none.  The string returned is the
\* field str of the result.
classify_circuit_type(circuit) ==
    LET n == get_total_sectors(circuit)
        total == SumSeq([i \in 1..n |-> get_average_speed_estimate(circuit, i)])
    IN  IF n = 0 THEN [raised |-> "ZeroDivisionError"]
        ELSE IF total > 220 * n THEN [str |-> "High-speed circuit"]
        ELSE IF total < 140 * n THEN [str |-> "Street/Technical circuit"]
        ELSE [str |-> "Mixed circuit"]

\* The dictionary get_circuit_info makes of sector i.
sector_info(circuit, i, sector) ==
    [ sector             |-> i,
      length             |-> sector.length,
      turns              |-> sector.turns,
      type               |-> Get(sector, "type", "unknown"),
      has_drs            |-> has_drs_in_sector(circuit, i),
      difficulty         |-> calculate_sector_difficulty(circuit, i),
      base_time          |-> get_sector_base_time(circuit, i),
      avg_speed_estimate |-> get_average_speed_estimate(circuit, i) ]

RECURSIVE sector_infos(_, _)
\* The loop of get_circuit_info over the numbers 1..n: the dictionaries of
\* the numbers that are sectors of the circuit.
sector_infos(circuit, n) ==
    IF n = 0 THEN <<>>
    ELSE IF get_sector_data(circuit, n) = None THEN sector_infos(circuit, n - 1)
    ELSE Append(sector_infos(circuit, n - 1),
                sector_info(circuit, n, get_sector_data(circuit, n)))

\* Circuit.get_circuit_info, or the error _classify_circuit_type raises.
get_circuit_info(circuit) ==
    IF Raised(classify_circuit_type(circuit)) THEN classify_circuit_type(circuit)
    ELSE [ name          |-> circuit.full_name,
           country       |-> circuit.country,
           length        |-> circuit.length,
           total_turns   |->
               SumSeq([i \in 1..Len(sector_infos(circuit, get_total_sectors(circuit)))
                         |-> sector_infos(circuit, get_total_sectors(circuit))[i].turns]),
           sectors       |-> sector_infos(circuit, get_total_sectors(circuit)),
           drs_zones     |-> Len(circuit.drs_zones),
           base_lap_time |-> circuit.base_lap_time,
           difficulty    |-> circuit.difficulty,
           circuit_type  |-> classify_circuit_type(circuit).str ]

(***************************************************************************)
(* utils.py                                                                *)
(***************************************************************************)
\* fuel_weight_to_lap_time_us counting only the fuel above a reserve of
\* 5 kg.
fuel_weight_to_lap_time_us_above_reserve(fuel_kg, circuit_length) ==
    Max(0, fuel_kg - 5) * circuit_length * 35

\* fuel_weight_to_lap_time in microseconds: fuel_kg * (circuit_length / 1000)
\* * 0.035 s is fuel_kg * circuit_length * 35 us, an integer for a fuel load
\* in kilograms and a length in metres.
fuel_weight_to_lap_time_us(fuel_kg, circuit_length) ==
    fuel_kg * circuit_length * 35

\* fuel_weight_to_lap_time: 0.035 s per kg per km, in milliseconds.
fuel_weight_to_lap_time(fuel_kg, circuit_length) ==
    fuel_weight_to_lap_time_us(fuel_kg, circuit_length) \div 1000

\* calculate_tire_degradation without the floor of 0.7.
calculate_tire_degradation_unfloored(current_lap, tire_data) ==
    LET peak_laps == Get(tire_data, "peak_performance_laps", 10)
        degradation_rate == Get(tire_data, "degradation_rate", 500)
    IN  IF current_lap <= peak_laps
        THEN Min(FS, 9500 + (current_lap * 500) \div peak_laps)
        ELSE FS - (current_lap - peak_laps) * degradation_rate

\* calculate_tire_degradation without the warm-up: 1.0 up to the peak laps.
calculate_tire_degradation_from_peak(current_lap, tire_data) ==
    LET peak_laps == Get(tire_data, "peak_performance_laps", 10)
        degradation_rate == Get(tire_data, "degradation_rate", 500)
    IN  IF current_lap <= peak_laps
        THEN FS
        ELSE Max(7000, FS - (current_lap - peak_laps) * degradation_rate)

\* calculate_tire_degradation: the multiplier, in units of 1/FS.
calculate_tire_degradation(current_lap, tire_data) ==
    LET peak_laps == Get(tire_data, "peak_performance_laps", 10)
        degradation_rate == Get(tire_data, "degradation_rate", 500)
    IN  IF current_lap <= peak_laps
        THEN Min(FS, 9500 + (current_lap * 500) \div peak_laps)
        ELSE LET laps_past_peak == current_lap - peak_laps
                 degradation == FS - laps_past_peak * degradation_rate
             IN  Max(7000, degradation)

\* calculate_drs_benefit, in milliseconds.
calculate_drs_benefit(sector_data, has_drs) ==
    IF ~has_drs THEN 0
    ELSE LET sector_type == Get(sector_data, "type", "medium_speed")
         IN  CASE sector_type = "high_speed"   -> 800
               [] sector_type = "medium_speed" -> 400
               [] sector_type = "low_speed"    -> 100
               [] OTHER                        -> 400

\* tire_compound in optimal_tires
InList(x, list) == \E i \in 1..Len(list) : list[i] = x

\* f"Suboptimal tire compound for {weather_data.get('name', 'current')}
\* conditions", for the names of the reference data.
suboptimal_tire_warning(weather_data) ==
    LET name == Get(weather_data, "name", "current")
    IN  CASE name = "Dry" -> "Suboptimal tire compound for Dry conditions"
          [] name = "Heavy Rain"
               -> "Suboptimal tire compound for Heavy Rain conditions"
          [] OTHER -> "Suboptimal tire compound for current conditions"

\* apply_weather_effect: <<modified time, warning>>; the warning is "" or
\* the suboptimal-tire message.
apply_weather_effect(base_time, weather_data, tire_compound) ==
    LET grip_modifier == Get(weather_data, "grip_modifier", FS)
        speed_modifier == Get(weather_data, "speed_modifier", FS)
        mistake_prob == Get(weather_data, "mistake_probability", 0)
        t1 == (base_time * FS) \div ((grip_modifier * speed_modifier) \div FS)
        optimal_tires == Get(weather_data, "optimal_tire", <<>>)
        suboptimal == ~InList(tire_compound, optimal_tires)
        t2 == IF suboptimal THEN (t1 * 11500) \div FS ELSE t1
        warning == IF suboptimal THEN suboptimal_tire_warning(weather_data)
                   ELSE ""
        \* base_time * mistake_prob * 0.1
        mistake_time == (base_time * mistake_prob) \div (FS * 10)
    IN  <<t2 + mistake_time, warning>>

\* calculate_driver_effect: <<time_modifier, mistake_probability>>, both in
\* units of 1/FS, for an aggression in units of 1/FS.
calculate_driver_effect(aggression_level) ==
    <<FS - (aggression_level * 8) \div 100, (aggression_level * 15) \div 100>>

\* validate_inputs checking the fuel load before the three names.
validate_inputs_fuel_first(circuit, tire_compound, fuel_load, weather) ==
    IF ~(0 <= fuel_load /\ fuel_load <= 110)
    THEN <<FALSE, "Fuel load must be between 0 and 110 kg">>
    ELSE IF circuit \notin DOMAIN circuits
    THEN <<FALSE, "Circuit not found">>
    ELSE IF tire_compound \notin DOMAIN tire_compounds
    THEN <<FALSE, "Tire compound not found">>
    ELSE IF weather \notin DOMAIN weather_conditions
    THEN <<FALSE, "Weather condition not found">>
    ELSE <<TRUE, "">>

\* validate_inputs: <<is_valid, error_message>>; of a "not found" message,
\* the text before the quoted name and after it up to the list of names.
validate_inputs(circuit, tire_compound, fuel_load, weather) ==
    IF circuit \notin DOMAIN circuits
    THEN <<FALSE, "Circuit not found">>
    ELSE IF tire_compound \notin DOMAIN tire_compounds
    THEN <<FALSE, "Tire compound not found">>
    ELSE IF weather \notin DOMAIN weather_conditions
    THEN <<FALSE, "Weather condition not found">>
    ELSE IF ~(0 <= fuel_load /\ fuel_load <= 110)
    THEN <<FALSE, "Fuel load must be between 0 and 110 kg">>
    ELSE <<TRUE, "">>

(***************************************************************************)
(* Car (modules/car.py).  A Car object is the record of its attributes.    *)
(***************************************************************************)
\* Car.__init__: the new Car, or the ValueError it raises.
NewCar(tire_compound, fuel_load) ==
    IF tire_compound \notin DOMAIN tire_compounds THEN ValueError
    ELSE IF ~(0 <= fuel_load /\ fuel_load <= 110) THEN ValueError
    ELSE [ tire_compound    |-> tire_compound,
           fuel_load        |-> fuel_load,
           downforce_level  |-> 5,
           engine_mode      |-> "race",
           ers_deployment   |-> "auto",
           base_weight      |-> 798,
           power_unit_power |-> 1000,
           drag_coefficient |-> FS,
           current_lap      |-> 1,
           tire_temperature |-> 90 ]

valid_engine_modes == {"quali", "race", "conservation"}

valid_ers_modes == {"auto", "aggressive", "conservative"}

\* set_setup clamping the downforce level into 1..10.
set_setup_clamping(car, downforce, engine_mode, ers_deployment) ==
    IF engine_mode \notin valid_engine_modes THEN ValueError
    ELSE IF ers_deployment \notin valid_ers_modes THEN ValueError
    ELSE [car EXCEPT !.downforce_level = Max(1, Min(10, downforce)),
                     !.engine_mode = engine_mode,
                     !.ers_deployment = ers_deployment,
                     !.drag_coefficient = 7000 + Max(1, Min(10, downforce)) * 600]

\* Car.set_setup: the Car after the call, or the ValueError it raises (the
\* Car is then as it was).
set_setup(car, downforce, engine_mode, ers_deployment) ==
    IF ~(1 <= downforce /\ downforce <= 10) THEN ValueError
    ELSE IF engine_mode \notin valid_engine_modes THEN ValueError
    ELSE IF ers_deployment \notin valid_ers_modes THEN ValueError
    ELSE [car EXCEPT !.downforce_level = downforce,
                     !.engine_mode = engine_mode,
                     !.ers_deployment = ers_deployment,
                     \* 0.7 + (downforce / 10) * 0.6
                     !.drag_coefficient = 7000 + downforce * 600]

\* calculate_temperature_effect with the grip loss of cold tires added.
calculate_temperature_effect_gaining(car) ==
    LET tire_info == tire_compounds[car.tire_compound]
        temp_effects == tire_temperature_effects
        optimal_range == tire_info.optimal_temp_range
        temp == car.tire_temperature
    IN  IF optimal_range[1] <= temp /\ temp <= optimal_range[2] THEN FS
        ELSE IF temp < temp_effects.cold.temp_threshold
             THEN FS + temp_effects.cold.grip_loss
        ELSE IF temp > temp_effects.overheated.temp_threshold
             THEN FS - temp_effects.overheated.grip_loss
        ELSE IF temp < optimal_range[1]
             THEN FS - (optimal_range[1] - temp) * 25
        ELSE FS - (temp - optimal_range[2]) * 25

\* Car._calculate_temperature_effect, in units of 1/FS.
calculate_temperature_effect(car) ==
    LET tire_info == tire_compounds[car.tire_compound]
        temp_effects == tire_temperature_effects
        optimal_range == tire_info.optimal_temp_range
        temp == car.tire_temperature
    IN  IF optimal_range[1] <= temp /\ temp <= optimal_range[2] THEN FS
        ELSE IF temp < temp_effects.cold.temp_threshold
             THEN FS - temp_effects.cold.grip_loss
        ELSE IF temp > temp_effects.overheated.temp_threshold
             THEN FS - temp_effects.overheated.grip_loss
        ELSE IF temp < optimal_range[1]
             \* 1.0 - (temp_diff / 20) * 0.05
             THEN FS - (optimal_range[1] - temp) * 25
        ELSE FS - (temp - optimal_range[2]) * 25

\* Car.get_tire_performance; the optional lap_number is <<>> when not given
\* and <<n>> when given.
get_tire_performance(car, lap_number_opt) ==
    LET lap_number == IF lap_number_opt = <<>> THEN car.current_lap
                      ELSE lap_number_opt[1]
        tire_info == tire_compounds[car.tire_compound]
        base_grip == tire_info.grip_modifier
        degradation_multiplier == calculate_tire_degradation(lap_number, tire_info)
        temp_effect == calculate_temperature_effect(car)
        effective_grip == (((base_grip * degradation_multiplier) \div FS)
                           * temp_effect) \div FS
    IN  [ base_grip              |-> base_grip,
          degradation_multiplier |-> degradation_multiplier,
          temperature_effect     |-> temp_effect,
          effective_grip         |-> effective_grip,
          compound               |-> car.tire_compound,
          lap_number             |-> lap_number,
          tire_life_remaining    |->
              Max(0, FS - (lap_number * FS) \div tire_info.life_span) ]

\* Car.get_engine_performance; powers in horsepower.
get_engine_performance(car) ==
    LET base_power == car.power_unit_power
        \* power multiplier per engine mode, per mille
        engine_power == CASE car.engine_mode = "quali"        -> 1080
                          [] car.engine_mode = "race"         -> 1000
                          [] car.engine_mode = "conservation" -> 920
        \* power_boost * deployment_time
        ers_contribution == CASE car.ers_deployment = "aggressive"   -> 40
                              [] car.ers_deployment = "auto"         -> 21
                              [] car.ers_deployment = "conservative" -> 10
        effective_power == (base_power * engine_power) \div 1000
    IN  [ base_power       |-> base_power,
          effective_power  |-> effective_power,
          ers_contribution |-> ers_contribution,
          total_power      |-> effective_power + ers_contribution ]

\* Car.get_aerodynamic_balance; multipliers in units of 1/FS.
get_aerodynamic_balance(car) ==
    [ downforce_level      |-> car.downforce_level,
      cornering_multiplier |-> FS + car.downforce_level * 150,
      drag_multiplier      |-> FS + car.downforce_level * 80,
      drag_coefficient     |-> car.drag_coefficient ]

\* Car.get_fuel_effect
get_fuel_effect(car, circuit_length) ==
    [ fuel_load           |-> car.fuel_load,
      total_weight        |-> car.base_weight + car.fuel_load,
      time_penalty        |-> fuel_weight_to_lap_time(car.fuel_load, circuit_length),
      handling_multiplier |-> FS + car.fuel_load * 10 ]

\* update_tire_state without the clamp of the temperature.
update_tire_state_unclamped(car, lap_number, sector_type) ==
    LET temp_change == CASE sector_type = "low_speed"    -> -2
                         [] sector_type = "medium_speed" -> 0
                         [] sector_type = "high_speed"   -> 3
                         [] OTHER                        -> 0
    IN  [car EXCEPT !.current_lap = lap_number,
                    !.tire_temperature = car.tire_temperature + temp_change]

\* update_tire_state counting the laps itself (current_lap += 1 for
\* current_lap = lap_number).
update_tire_state_counting(car, lap_number, sector_type) ==
    LET temp_change == CASE sector_type = "low_speed"    -> -2
                         [] sector_type = "medium_speed" -> 0
                         [] sector_type = "high_speed"   -> 3
                         [] OTHER                        -> 0
    IN  [car EXCEPT !.current_lap = car.current_lap + 1,
                    !.tire_temperature =
                        Max(60, Min(140, car.tire_temperature + temp_change))]

\* update_tire_state also burning a kilogram of fuel.
update_tire_state_burning_fuel(car, lap_number, sector_type) ==
    LET temp_change == CASE sector_type = "low_speed"    -> -2
                         [] sector_type = "medium_speed" -> 0
                         [] sector_type = "high_speed"   -> 3
                         [] OTHER                        -> 0
    IN  [car EXCEPT !.current_lap = lap_number,
                    !.tire_temperature =
                        Max(60, Min(140, car.tire_temperature + temp_change)),
                    !.fuel_load = Max(0, car.fuel_load - 1)]

\* Car.update_tire_state: the Car after the call.
update_tire_state(car, lap_number, sector_type) ==
    LET temp_change == CASE sector_type = "low_speed"    -> -2
                         [] sector_type = "medium_speed" -> 0
                         [] sector_type = "high_speed"   -> 3
                         [] OTHER                        -> 0
    IN  [car EXCEPT !.current_lap = lap_number,
                    !.tire_temperature =
                        Max(60, Min(140, car.tire_temperature + temp_change))]

(***************************************************************************)
(* The random source (Python's module random, used by                      *)
(* calculate_sector_time).  Its state is a tape of draws of random() in    *)
(* units of 1/FS and the position of the next draw; the tape is read       *)
(* cyclically.  Seeding it again replays the tape from its start.          *)
(***************************************************************************)
\* random.random(): the draw at the current position.
random_random(rng) == rng.tape[(rng.pos % Len(rng.tape)) + 1]

\* The source after one draw.
Advance(rng) == [rng EXCEPT !.pos = (rng.pos + 1) % Len(rng.tape)]

\* random.uniform(a, b) for the draw u: a + (b - a) * u.
random_uniform(a, b, u) == a + ((b - a) * u) \div FS

\* random.seed(s) with the seed the tape came from.
Reseeded(rng) == [rng EXCEPT !.pos = 0]

(***************************************************************************)
(* LapSimulator (modules/lap_simulator.py).  A LapSimulator object is the  *)
(* record of its attributes; its attribute car is a reference to a Car     *)
(* object, "self" for the Car the engine was built with and "temp" for the *)
(* temp_car of compare_configurations.  The Car objects are in cars.       *)
(***************************************************************************)
\* LapSimulator.__init__: the new simulator, or the ValueError it raises.
LapSimulator(circuit, car_ref, weather) ==
    IF weather \notin DOMAIN weather_conditions THEN ValueError
    ELSE [ circuit             |-> circuit,
           car                 |-> car_ref,
           weather             |-> weather,
           current_weather     |-> weather_conditions[weather],
           driver_aggression   |-> 5000,
           track_condition     |-> "rubbered_in",
           use_drs             |-> TRUE,
           simulation_variance |-> 200 ]

\* set_driver_parameters clamping the aggression into [0, 1].
set_driver_parameters_clamping(sim, aggression, use_drs) ==
    [sim EXCEPT !.driver_aggression = Max(0, Min(FS, aggression)),
                !.use_drs = use_drs]

\* LapSimulator.set_driver_parameters
set_driver_parameters(sim, aggression, use_drs) ==
    IF ~(0 <= aggression /\ aggression <= FS) THEN ValueError
    ELSE [sim EXCEPT !.driver_aggression = aggression, !.use_drs = use_drs]

\* set_track_condition taking the default condition for a name that is not
\* in the reference data.
set_track_condition_defaulting(sim, condition) ==
    IF condition \notin DOMAIN track_conditions
    THEN [sim EXCEPT !.track_condition = "rubbered_in"]
    ELSE [sim EXCEPT !.track_condition = condition]

\* LapSimulator.set_track_condition
set_track_condition(sim, condition) ==
    IF condition \notin DOMAIN track_conditions THEN ValueError
    ELSE [sim EXCEPT !.track_condition = condition]

\* get_optimal_setup_suggestions lines 329-338: the downforce and the
\* rationale for a circuit type ('High-speed' in circuit_type, 'Street' in
\* circuit_type or 'Technical' in circuit_type, else).
downforce_suggestion(circuit_type) ==
    IF circuit_type = "High-speed circuit"
    THEN [downforce |-> 3, reasoning |-> "Low downforce for high-speed circuit"]
    ELSE IF circuit_type = "Street/Technical circuit"
    THEN [downforce |-> 8, reasoning |-> "High downforce for technical circuit"]
    ELSE [downforce |-> 5, reasoning |-> "Balanced downforce for mixed circuit"]

\* get_optimal_setup_suggestions lines 340-350: the tire strategy, or the
\* error of reading the first optimal tire of the weather.
tire_strategy(sim) ==
    IF sim.weather = "dry"
    THEN [qualifying |-> "soft", race_start |-> "medium"]
    ELSE IF "optimal_tire" \notin DOMAIN sim.current_weather
    THEN [raised |-> "KeyError"]
    ELSE IF sim.current_weather.optimal_tire = <<>>
    THEN [raised |-> "IndexError"]
    ELSE [recommended |-> sim.current_weather.optimal_tire[1]]

\* The dictionary get_optimal_setup_suggestions returns for the circuit
\* information circuit_info.
setup_suggestions(sim, circuit_info) ==
    IF Raised(circuit_info) THEN circuit_info
    ELSE IF Raised(tire_strategy(sim)) THEN tire_strategy(sim)
    ELSE [ circuit_analysis  |-> circuit_info,
           recommended_setup |->
               [ downforce      |->
                     downforce_suggestion(circuit_info.circuit_type).downforce,
                 engine_mode    |-> "race",
                 ers_deployment |-> "auto" ],
           tire_strategy     |-> tire_strategy(sim),
           reasoning         |->
               << downforce_suggestion(circuit_info.circuit_type).reasoning >> ]

\* LapSimulator.get_optimal_setup_suggestions
get_optimal_setup_suggestions(sim) ==
    setup_suggestions(sim, get_circuit_info(sim.circuit))

\* LapSimulator._calculate_all_modifiers
calculate_all_modifiers(sim, car, tire_perf, engine_perf, fuel_effect) ==
    [ tire_grip         |-> tire_perf.effective_grip,
      tire_degradation  |-> tire_perf.degradation_multiplier,
      tire_temperature  |-> tire_perf.temperature_effect,
      fuel_penalty      |-> fuel_effect.time_penalty,
      downforce_level   |-> car.downforce_level,
      engine_power      |-> engine_perf.total_power,
      weather_grip      |-> sim.current_weather.grip_modifier,
      track_condition   |-> track_conditions[sim.track_condition].grip_modifier,
      driver_aggression |-> sim.driver_aggression ]

\* The Car whose state the performance factors of a sector are read from:
\* the Car after update_tire_state (lap_simulator.py lines 84-85).
sector_car(car, lap_number, sector_data) ==
    update_tire_state(car, lap_number, Get(sector_data, "type", "medium_speed"))

\* calculate_sector_time lines 100-101: tire grip.
apply_tire_grip(sector_time, tire_performance) ==
    (sector_time * FS) \div tire_performance.effective_grip

\* calculate_sector_time lines 103-104: the fuel penalty of the lap spread
\* over the sectors.
apply_fuel_weight(sector_time, fuel_effect, total_sectors) ==
    sector_time + fuel_effect.time_penalty \div total_sectors

\* calculate_sector_time lines 106-117: aerodynamics.
apply_aerodynamics(sector_time, sector_data, aero_balance) ==
    LET type == Get(sector_data, "type", "")
        drag_effect == (aero_balance.drag_multiplier - FS) \div 2
        corner_effect == (aero_balance.cornering_multiplier - FS) \div 2
    IN  IF type = "high_speed"
        THEN (sector_time * aero_balance.drag_multiplier) \div FS
        ELSE IF type = "low_speed"
        THEN (sector_time * FS) \div aero_balance.cornering_multiplier
        ELSE (sector_time * (FS + drag_effect - corner_effect)) \div FS

\* calculate_sector_time lines 119-121: 0.95 + (total_power / 1000) * 0.05.
apply_engine_power(sector_time, engine_performance) ==
    (sector_time * FS) \div (9500 + engine_performance.total_power \div 2)

\* apply_drs subtracting the benefit whenever DRS is enabled, whether the
\* sector has a DRS zone or not.
apply_drs_whenever_enabled(sector_time, sim, sector_number, sector_data) ==
    IF sim.use_drs
    THEN sector_time - calculate_drs_benefit(sector_data, TRUE)
    ELSE sector_time

\* calculate_sector_time lines 123-126: DRS.
apply_drs(sector_time, sim, sector_number, sector_data) ==
    IF sim.use_drs /\ has_drs_in_sector(sim.circuit, sector_number)
    THEN sector_time - calculate_drs_benefit(sector_data, TRUE)
    ELSE sector_time

\* calculate_sector_time lines 133-139: track condition and driver.
apply_track_and_driver(sector_time, sim) ==
    (((sector_time * FS) \div track_conditions[sim.track_condition].grip_modifier)
        * calculate_driver_effect(sim.driver_aggression)[1]) \div FS

\* apply_randomness taking two draws whatever happens: the variance draw
\* also when the variance is 0, then the mistake draw, which also gives the
\* size of the mistake.
apply_randomness_two_draws(sector_time, sim, rng) ==
    LET has_variance == sim.simulation_variance > 0
        variance == random_uniform(-sim.simulation_variance,
                                   sim.simulation_variance, random_random(rng))
        t1 == IF has_variance THEN (sector_time * (FS + variance)) \div FS
              ELSE sector_time
        rng1 == Advance(rng)
        mistake_prob == calculate_driver_effect(sim.driver_aggression)[2]
        mistake == random_random(rng1) < mistake_prob
        mistake_time ==
            (t1 * random_uniform(500, 1500, random_random(rng1))) \div FS
    IN  IF mistake
        THEN [time |-> t1 + mistake_time, mistake_time |-> mistake_time,
              rng |-> Advance(rng1)]
        ELSE [time |-> t1, mistake_time |-> -1, rng |-> Advance(rng1)]

\* apply_randomness with a mistake also when the mistake draw equals the
\* mistake probability (<= for <).
apply_randomness_mistake_at_equal(sector_time, sim, rng) ==
    LET has_variance == sim.simulation_variance > 0
        variance == random_uniform(-sim.simulation_variance,
                                   sim.simulation_variance, random_random(rng))
        t1 == IF has_variance THEN (sector_time * (FS + variance)) \div FS
              ELSE sector_time
        rng1 == IF has_variance THEN Advance(rng) ELSE rng
        mistake_prob == calculate_driver_effect(sim.driver_aggression)[2]
        mistake == random_random(rng1) <= mistake_prob
        mistake_time ==
            (t1 * random_uniform(500, 1500, random_random(Advance(rng1)))) \div FS
    IN  IF mistake
        THEN [time |-> t1 + mistake_time, mistake_time |-> mistake_time,
              rng |-> Advance(Advance(rng1))]
        ELSE [time |-> t1, mistake_time |-> -1, rng |-> Advance(rng1)]

\* calculate_sector_time lines 141-150: the variance draw when the variance
\* is positive, the mistake draw, and the draw of the mistake's size when a
\* mistake happens.  mistake_time is -1 when no mistake happens.
apply_randomness(sector_time, sim, rng) ==
    LET has_variance == sim.simulation_variance > 0
        variance == random_uniform(-sim.simulation_variance,
                                   sim.simulation_variance, random_random(rng))
        t1 == IF has_variance THEN (sector_time * (FS + variance)) \div FS
              ELSE sector_time
        rng1 == IF has_variance THEN Advance(rng) ELSE rng
        mistake_prob == calculate_driver_effect(sim.driver_aggression)[2]
        mistake == random_random(rng1) < mistake_prob
        mistake_time ==
            (t1 * random_uniform(500, 1500, random_random(Advance(rng1)))) \div FS
    IN  IF mistake
        THEN [time |-> t1 + mistake_time, mistake_time |-> mistake_time,
              rng |-> Advance(Advance(rng1))]
        ELSE [time |-> t1, mistake_time |-> -1, rng |-> Advance(rng1)]

\* sector_outcome without the clamp of the time (sector_time for
\* max(0, sector_time)).
sector_outcome_unclamped(car, sector_number, sector_data, base_sector_time, modifiers, has_drs, weather_warning, drawn) ==
    [ car |-> car,
      rng |-> drawn.rng,
      result |->
        [ sector_number |-> sector_number,
          time          |-> drawn.time,
          base_time     |-> base_sector_time,
          modifiers     |-> IF drawn.mistake_time >= 0
                            THEN [k \in DOMAIN modifiers \cup {"driver_mistake"}
                                    |-> IF k = "driver_mistake"
                                        THEN drawn.mistake_time ELSE modifiers[k]]
                            ELSE modifiers,
          warnings      |-> IF weather_warning # ""
                            THEN <<weather_warning>> ELSE <<>>,
          has_drs       |-> has_drs,
          sector_data   |-> sector_data ] ]

\* calculate_sector_time lines 150-160, after the draws drawn: [car, rng,
\* result], the Car and the random source after the call and the dictionary
\* returned.
sector_outcome(car, sector_number, sector_data, base_sector_time, modifiers, has_drs, weather_warning, drawn) ==
    [ car |-> car,
      rng |-> drawn.rng,
      result |->
        [ sector_number |-> sector_number,
          time          |-> Max(0, drawn.time),
          base_time     |-> base_sector_time,
          modifiers     |-> IF drawn.mistake_time >= 0
                            THEN [k \in DOMAIN modifiers \cup {"driver_mistake"}
                                    |-> IF k = "driver_mistake"
                                        THEN drawn.mistake_time ELSE modifiers[k]]
                            ELSE modifiers,
          warnings      |-> IF weather_warning # ""
                            THEN <<weather_warning>> ELSE <<>>,
          has_drs       |-> has_drs,
          sector_data   |-> sector_data ] ]

\* calculate_sector_time lines 128-160, from the weather on.
sector_time_in_weather(sim, car, rng, sector_number, sector_data, base_sector_time, modifiers, weather) ==
    sector_outcome(car, sector_number, sector_data, base_sector_time, modifiers,
                  has_drs_in_sector(sim.circuit, sector_number), weather[2],
                  apply_randomness(apply_track_and_driver(weather[1], sim),
                                   sim, rng))

\* calculate_sector_time lines 87-160, on the Car after update_tire_state.
sector_time_of_car(sim, car, rng, sector_number, lap_number, sector_data) ==
    LET circuit == sim.circuit
        base_sector_time == get_sector_base_time(circuit, sector_number)
        tire_performance == get_tire_performance(car, <<lap_number>>)
        engine_performance == get_engine_performance(car)
        aero_balance == get_aerodynamic_balance(car)
        fuel_effect == get_fuel_effect(car, circuit.length)
    IN  sector_time_in_weather(sim, car, rng, sector_number, sector_data,
            base_sector_time,
            calculate_all_modifiers(sim, car, tire_performance,
                                    engine_performance, fuel_effect),
            apply_weather_effect(
                apply_drs(
                    apply_engine_power(
                        apply_aerodynamics(
                            apply_fuel_weight(
                                apply_tire_grip(base_sector_time, tire_performance),
                                fuel_effect, get_total_sectors(circuit)),
                            sector_data, aero_balance),
                        engine_performance),
                    sim, sector_number, sector_data),
                sim.current_weather, car.tire_compound))

\* calculate_sector_time updating the tire state before it looks for the
\* sector.
calculate_sector_time_updating_first(sim, car, rng, sector_number, lap_number) ==
    LET sector_data == get_sector_data(sim.circuit, sector_number)
    IN  IF sector_data = None
        THEN [car |-> update_tire_state(car, lap_number, "medium_speed"),
              rng |-> rng, result |-> ValueError]
        ELSE IF sim.circuit.length = 0 \/ sector_data.length = 0
        THEN [car |-> car, rng |-> rng,
              result |-> [raised |-> "ZeroDivisionError"]]
        ELSE sector_time_of_car(sim, sector_car(car, lap_number, sector_data),
                                rng, sector_number, lap_number, sector_data)

\* calculate_sector_time reading the performance factors before it updates
\* the tire state (lines 88-91 ahead of line 85).
calculate_sector_time_updating_last(sim, car, rng, sector_number, lap_number) ==
    LET sector_data == get_sector_data(sim.circuit, sector_number)
    IN  IF sector_data = None
        THEN [car |-> car, rng |-> rng, result |-> ValueError]
        ELSE IF sim.circuit.length = 0 \/ sector_data.length = 0
        THEN [car |-> car, rng |-> rng,
              result |-> [raised |-> "ZeroDivisionError"]]
        ELSE [sector_time_of_car(sim, car, rng, sector_number, lap_number,
                                 sector_data)
                 EXCEPT !.car = sector_car(car, lap_number, sector_data)]

\* LapSimulator.calculate_sector_time on the Car car with the random source
\* rng: [car, rng, result], the Car and the random source after the call and
\* the dictionary returned, or the error raised.
calculate_sector_time(sim, car, rng, sector_number, lap_number) ==
    LET sector_data == get_sector_data(sim.circuit, sector_number)
    IN  IF sector_data = None
        THEN [car |-> car, rng |-> rng, result |-> ValueError]
        ELSE IF sim.circuit.length = 0 \/ sector_data.length = 0
        THEN [car |-> car, rng |-> rng,
              result |-> [raised |-> "ZeroDivisionError"]]
        ELSE sector_time_of_car(sim, sector_car(car, lap_number, sector_data),
                                rng, sector_number, lap_number, sector_data)

\* min(range(len(times)), key=...) + 1: the first position of the least time.
FirstMin(times) ==
    CHOOSE i \in 1..Len(times) :
        /\ \A j \in 1..Len(times) : times[i] <= times[j]
        /\ \A j \in 1..(i - 1) : times[j] > times[i]

\* max(range(len(times)), key=...) + 1: the first position of the greatest.
FirstMax(times) ==
    CHOOSE i \in 1..Len(times) :
        /\ \A j \in 1..Len(times) : times[i] >= times[j]
        /\ \A j \in 1..(i - 1) : times[j] < times[i]

\* LapSimulator._calculate_lap_statistics; min() of no sector raises
\* ValueError.
calculate_lap_statistics(sim, car, sector_results, total_time) ==
    IF sector_results = <<>> THEN ValueError
    ELSE
    LET sector_times == [i \in 1..Len(sector_results) |-> sector_results[i].time]
        theoretical_best ==
            SumSeq([i \in 1..Len(sector_results) |-> sector_results[i].base_time])
        tire_perf == get_tire_performance(car, <<>>)
        n == Len(sector_results)
    IN  [ fastest_sector             |-> FirstMin(sector_times),
          slowest_sector             |-> FirstMax(sector_times),
          sector_balance             |-> sector_times[FirstMax(sector_times)]
                                         - sector_times[FirstMin(sector_times)],
          theoretical_best           |-> theoretical_best,
          time_delta_to_theoretical  |-> total_time - theoretical_best,
          average_sector_time        |-> total_time \div n,
          tire_performance_remaining |-> tire_perf.tire_life_remaining,
          \* max(0, fuel_load - 2.8 * current_lap), in tenths of a kilogram
          estimated_fuel_remaining   |->
              Max(0, car.fuel_load * 10 - 28 * car.current_lap),
          time_loss_breakdown        |->
              [ tire_degradation   |->
                    (total_time * (FS - tire_perf.degradation_multiplier))
                        \div (FS * 10),
                fuel_weight        |->
                    SumSeq([i \in 1..n |-> sector_results[i].modifiers.fuel_penalty])
                        \div n,
                weather_conditions |->
                    (total_time * (FS - sim.current_weather.grip_modifier))
                        \div (FS * 20),
                suboptimal_setup   |-> 0 ] ]

\* list(all_warnings) for list(set(all_warnings)): every warning kept.
keep_all_warnings(list) == list

RECURSIVE Dedup(_)
\* list(set(all_warnings)): every distinct warning once.
Dedup(list) ==
    IF list = <<>> THEN <<>>
    ELSE LET rest == Dedup(Tail(list))
         IN  IF InList(list[1], rest) THEN rest ELSE <<list[1]>> \o rest

\* The dictionary simulate_full_lap returns (lap_simulator.py lines 199-216),
\* or the error _calculate_lap_statistics raises.
lap_result(sim, car, lap_number, sector_results, total_time, all_warnings) ==
    LET lap_stats == calculate_lap_statistics(sim, car, sector_results, total_time)
    IN  IF Raised(lap_stats) THEN lap_stats
        ELSE [ lap_number     |-> lap_number,
               total_time     |-> total_time,
               sector_times   |-> [i \in 1..Len(sector_results)
                                     |-> sector_results[i].time],
               sector_results |-> sector_results,
               lap_statistics |-> lap_stats,
               warnings       |-> Dedup(all_warnings),
               conditions     |-> [ circuit         |-> sim.circuit.name,
                                    weather         |-> sim.weather,
                                    track_condition |-> sim.track_condition,
                                    tire_compound   |-> car.tire_compound,
                                    fuel_load       |-> car.fuel_load ] ]

\* The locals of simulate_full_lap as its loop starts lap lap_number.
lap_frame(lap_number) ==
    [ lap_number     |-> lap_number,
      sector_num     |-> 1,
      sector_results |-> <<>>,
      total_time     |-> 0,
      all_warnings   |-> <<>> ]

\* lap_frame_after with the total assigned, not accumulated
\* (total_time = for total_time +=).
lap_frame_after_assigning(frame, sector_result) ==
    [frame EXCEPT
        !.sector_num = frame.sector_num + 1,
        !.sector_results = Append(frame.sector_results, sector_result),
        !.total_time = sector_result.time,
        !.all_warnings = frame.all_warnings \o sector_result.warnings]

\* simulate_full_lap lines 194-197: the locals after the sector whose result
\* is sector_result.
lap_frame_after(frame, sector_result) ==
    [frame EXCEPT
        !.sector_num = frame.sector_num + 1,
        !.sector_results = Append(frame.sector_results, sector_result),
        !.total_time = frame.total_time + sector_result.time,
        !.all_warnings = frame.all_warnings \o sector_result.warnings]

\* simulate_full_lap lines 199-216 on the locals after the last sector.
lap_result_of(s, car, frame) ==
    lap_result(s, car, frame.lap_number, frame.sector_results,
               frame.total_time, frame.all_warnings)

\* The loop body of simulate_full_lap after its call of
\* calculate_sector_time returned r, and the rest of simulate_full_lap when
\* that was the last sector.  status is "more" (frame holds the locals for
\* the next iteration), "done" (result is the dictionary returned) or
\* "raised" (result is the error).
lap_after_sector(s, cs, frame, r) ==
    IF Raised(r.result)
    THEN [status |-> "raised", cars |-> cs, rng |-> r.rng,
          frame |-> frame, result |-> r.result]
    ELSE IF frame.sector_num < get_total_sectors(s.circuit)
    THEN [status |-> "more",
          cars |-> [cs EXCEPT ![s.car] = r.car],
          rng |-> r.rng,
          frame |-> lap_frame_after(frame, r.result),
          result |-> None]
    ELSE [status |-> "done",
          cars |-> [cs EXCEPT ![s.car] = r.car],
          rng |-> r.rng,
          frame |-> frame,
          result |-> lap_result_of(s, r.car, lap_frame_after(frame, r.result))]

\* One iteration of the loop of simulate_full_lap on simulator s.
lap_iteration(s, cs, rng, frame) ==
    lap_after_sector(s, cs, frame,
                     calculate_sector_time(s, cs[s.car], rng, frame.sector_num,
                                           frame.lap_number))

\* stint_next_lap_car with the tires of a new lap at the initial temperature.
stint_next_lap_car_cooled(car, lap) ==
    [car EXCEPT !.current_lap = lap, !.tire_temperature = 90]

\* stint_next_lap_car one lap ahead (lap + 1 for lap).
stint_next_lap_car_ahead(car, lap) == [car EXCEPT !.current_lap = lap + 1]

\* simulate_stint line 268: the Car as the next lap of the stint starts.
stint_next_lap_car(car, lap) == [car EXCEPT !.current_lap = lap]

\* compare_configurations lines 286-296: the temp_car of a configuration, or
\* the ValueError raised building it.
temp_car_of(config) ==
    LET c == NewCar(Get(config, "tire", "medium"), Get(config, "fuel", 50))
    IN  IF Raised(c) THEN c
        ELSE IF \E k \in {"downforce", "engine_mode", "ers"} : k \in DOMAIN config
        THEN set_setup(c, Get(config, "downforce", 5),
                       Get(config, "engine_mode", "race"),
                       Get(config, "ers", "auto"))
        ELSE c

\* new_temp_sim built on the engine's own Car (self.car for temp_car).
new_temp_sim_on_own_car(sim, temp_ref) ==
    LET s0 == LapSimulator(sim.circuit, sim.car, sim.weather)
        s1 == IF Raised(s0) THEN s0
              ELSE set_driver_parameters(s0, sim.driver_aggression, sim.use_drs)
    IN  IF Raised(s1) THEN s1 ELSE set_track_condition(s1, sim.track_condition)

\* compare_configurations lines 299-301: the temp_sim, built on the Car
\* object temp_ref with the engine's circuit, weather, driver parameters and
\* track condition.
new_temp_sim(sim, temp_ref) ==
    LET s0 == LapSimulator(sim.circuit, temp_ref, sim.weather)
        s1 == IF Raised(s0) THEN s0
              ELSE set_driver_parameters(s0, sim.driver_aggression, sim.use_drs)
    IN  IF Raised(s1) THEN s1 ELSE set_track_condition(s1, sim.track_condition)

RECURSIVE sort_by_total_time_unstable(_)
\* sort_by_total_time putting a result before the results of the same time.
sort_by_total_time_unstable(results) ==
    IF results = <<>> THEN <<>>
    ELSE LET n == Len(results)
             last == results[n]
             front == sort_by_total_time_unstable(SubSeq(results, 1, n - 1))
             k == Cardinality({i \in 1..Len(front) :
                                 front[i].total_time < last.total_time})
         IN  SubSeq(front, 1, k) \o <<last>> \o SubSeq(front, k + 1, Len(front))

RECURSIVE sort_by_total_time(_)
\* list.sort(key=lambda x: x['total_time']): ascending and stable.
sort_by_total_time(results) ==
    IF results = <<>> THEN <<>>
    ELSE LET n == Len(results)
             last == results[n]
             front == sort_by_total_time(SubSeq(results, 1, n - 1))
             \* last goes after every element of front that is not slower
             k == Cardinality({i \in 1..Len(front) :
                                 front[i].total_time <= last.total_time})
         IN  SubSeq(front, 1, k) \o <<last>> \o SubSeq(front, k + 1, Len(front))

(***************************************************************************)
(* The state.                                                              *)
(***************************************************************************)
VARIABLES
    cars,       \* the Car objects: cars.self, the engine's Car, and cars.temp
    sim,        \* the engine: the LapSimulator the operations are called on
    temp_sim,   \* the temp_sim of a running compare_configurations, or None
    rng,        \* the random source
    pc,         \* the running operation and its locals, or Idle
    ret,        \* what the last operation returned or raised; NoResult
                \* while an operation runs
    calls,      \* the number of calls on the engine so far
    laps_log    \* the simulate_full_lap calls that returned since anything
                \* else touched the Car, the last two of them: for each,
                \* the Car and the random source as it was called and the
                \* dictionary it returned

vars == <<cars, sim, temp_sim, rng, pc, ret, calls, laps_log>>

Idle == [op |-> "idle"]

\* An operation that returned value.
Returned(op, args, value) ==
    [op |-> op, args |-> args, raised |-> "", value |-> value]

\* An operation that raised error.
Failed(op, args, error) ==
    [op |-> op, args |-> args, raised |-> error.raised, value |-> <<>>]

NoResult == Returned("", <<>>, <<>>)

\* What the call of op with args ended with.
Outcome(op, args, value) ==
    IF Raised(value) THEN Failed(op, args, value) ELSE Returned(op, args, value)

(***************************************************************************)
(* Bounds and inputs.                                                      *)
(***************************************************************************)
\* Calls on the engine in one run.
MaxCalls == 2

\* Lap numbers given to the operations are 1..MaxLap.
MaxLap == 2

\* Laps of a stint are 0..MaxStint.
MaxStint == 3

\* Configurations in one comparison are 0..MaxConfigs.
MaxConfigs == 2

\* The custom circuit of the test suite, and one whose sector numbers have
\* a gap.
TestTrack ==
    create_custom_circuit("Test Track", 3500,
        << [number |-> 1, length |-> 2000, turns |-> 5, type |-> "medium_speed"],
           [number |-> 2, length |-> 1500, turns |-> 3, type |-> "high_speed"] >>)

GapTrack ==
    create_custom_circuit("Gap Track", 3000,
        << [number |-> 1, length |-> 1800, turns |-> 4, type |-> "low_speed"],
           [number |-> 3, length |-> 1200, turns |-> 2] >>)

\* A custom circuit whose sectors leave the tire temperature as it is: a
\* medium-speed sector and one of a type update_tire_state does not know.
FlatTrack ==
    create_custom_circuit("Flat Track", 2400,
        << [number |-> 1, length |-> 1400, turns |-> 3, type |-> "medium_speed"],
           [number |-> 2, length |-> 1000, turns |-> 2, type |-> "chicane"] >>)

Circuits == {Circuit("monza"), Circuit("monaco"), TestTrack, GapTrack, FlatTrack}

\* A custom circuit built from an empty segment list.
EmptyTrack == create_custom_circuit("Empty Track", 1000, <<>>)

\* Lists of configurations whose temp_car is built without an error.
ValidConfigLists ==
    { << [tire |-> "soft", fuel |-> 30] >>,
      << [tire |-> "medium", fuel |-> 50],
         [tire |-> "hard", fuel |-> 70, downforce |-> 8, engine_mode |-> "quali"] >> }

Tires == {"soft", "wet"}

Weathers == {"dry", "heavy_rain"}

\* <<aggression, use_drs>> given to set_driver_parameters.
Drivers == {<<5000, TRUE>>, <<0, FALSE>>, <<FS, TRUE>>}

\* Tapes of the random source.
Tapes == {<<5000>>, <<0, 100, 9999>>}

\* Values assigned to simulation_variance, in units of 1/FS: none and the
\* default 0.02.
Variances == {0, 200}

\* Tapes of the random source long enough to tell one, two and three draws
\* apart, with draws below and above every mistake probability.
DrawTapes == {<<0, 100, 9999, 5000, 2000>>}

\* Random sources: every tape of the model at every position.
RandomSources ==
    UNION { { [tape |-> t, pos |-> p] : p \in 0..(Len(t) - 1) } :
            t \in Tapes \cup DrawTapes }

\* Times in milliseconds given to apply_weather_effect.
WeatherBaseTimes == {0, 1000, 90000}

\* Sector types given to update_tire_state.
SectorTypes == {"low_speed", "medium_speed", "high_speed", "chicane"}

\* Sector data given to calculate_drs_benefit: of every type, and without a
\* type.
DrsSectorData == { [type |-> t] : t \in SectorTypes } \cup { [turns |-> 2] }

Configs ==
    { [tire |-> "soft", fuel |-> 30],
      [tire |-> "medium", fuel |-> 50],
      [tire |-> "hard", fuel |-> 70, downforce |-> 8, engine_mode |-> "quali"],
      [fuel |-> 150] }

ConfigLists == UNION { [1..n -> Configs] : n \in 0..MaxConfigs }

\* Lap numbers given to calculate_tire_degradation and get_tire_performance
\* are 1..MaxTireLap.
MaxTireLap == 12

\* Compound data given to calculate_tire_degradation: every compound of the
\* reference data, compounds that never degrade or lose all grip in a lap,
\* and data without the two keys.
TireData ==
    { tire_compounds[c] : c \in DOMAIN tire_compounds }
    \cup { [peak_performance_laps |-> p, degradation_rate |-> r] :
               p \in {1, 3}, r \in {0, 2 * FS} }
    \cup { [grip_modifier |-> FS] }

\* Fuel loads, downforce levels and modes given to Car and set_setup.
FuelLoads == {-1, 0, 50, 110, 111}

Downforces == {0, 1, 5, 10, 11}

EngineModes == {"quali", "race", "turbo"}

ErsModes == {"auto", "aggressive", "overtake"}

\* Aggressions given to set_driver_parameters, in units of 1/FS.
Aggressions == {-1, 0, 5000, FS, FS + 1}

\* Names given to Circuit, LapSimulator and set_track_condition: names of
\* the reference data and one that is not in it.
CircuitNames == {"monza", "monaco", "imola"}

WeatherNames == {"dry", "heavy_rain", "snow"}

TrackConditionNames == {"green", "rubbered_in", "dusty", "icy"}

\* Compound names, in the reference data and not.
CompoundNames == {"soft", "medium", "slick"}

\* Fuel loads in kilograms and circuit lengths in metres given to
\* fuel_weight_to_lap_time.
FuelMasses == {0, 1, 20, 40, 55, 110}

TrackLengths == {1, 1000, 2400, 3300, 5000}

\* Segments given to create_custom_circuit as the only segment of a
\* circuit: turn counts from 0, lengths from 1 m, every category, one that
\* is not known and none, elevation changes of both signs and none.
SegmentTurns == {0, 1, 10, 40}

SegmentLengths == {1, 500, 5000}

ElevationChanges == {-100, -1, 0, 60}

Segments ==
    { [number |-> 1, length |-> l, turns |-> t] :
          l \in SegmentLengths, t \in SegmentTurns }
    \cup { [number |-> 1, length |-> l, turns |-> t, type |-> ty] :
               l \in SegmentLengths, t \in SegmentTurns, ty \in SectorTypes }
    \cup { [number |-> 1, length |-> l, turns |-> t, type |-> ty,
            elevation_change |-> e] :
               l \in SegmentLengths, t \in SegmentTurns, ty \in SectorTypes,
               e \in ElevationChanges }

OneSegmentTracks ==
    { create_custom_circuit("One Segment", 5000, <<segment>>) :
          segment \in Segments }

(***************************************************************************)
(* The initial states: an engine built on circuit c in weather w with a    *)
(* new Car on tires t and 50 kg of fuel, its driver parameters set to d,   *)
(* and the random source seeded.                                           *)
(***************************************************************************)
InitWith(cs, ts, ws, ds, tapes) ==
    /\ \E t \in ts : cars = [self |-> NewCar(t, 50), temp |-> None]
    /\ \E c \in cs, w \in ws, d \in ds :
           sim = set_driver_parameters(LapSimulator(c, "self", w), d[1], d[2])
    /\ temp_sim = None
    /\ \E tape \in tapes : rng = [tape |-> tape, pos |-> 0]
    /\ pc = Idle
    /\ ret = Returned("__init__", <<>>, <<>>)
    /\ calls = 0
    /\ laps_log = <<>>

Init == InitWith({Circuit("monza"), TestTrack}, {"soft"}, {"dry"},
                 {<<5000, TRUE>>, <<0, FALSE>>}, {<<0, 100, 9999>>})

CanCall == pc = Idle /\ calls < MaxCalls

(***************************************************************************)
(* Car operations called on the engine's Car.                              *)
(***************************************************************************)
\* Car(tire_compound, fuel_load): the engine's Car becomes the new Car,
\* unless the constructor raises.
ConstructCar(tire_compound, fuel_load) ==
    /\ pc = Idle
    /\ LET c == NewCar(tire_compound, fuel_load)
       IN  /\ cars' = IF Raised(c) THEN cars ELSE [cars EXCEPT !.self = c]
           /\ ret' = Outcome("Car", <<tire_compound, fuel_load>>, c)
    /\ laps_log' = <<>>
    /\ UNCHANGED <<sim, temp_sim, rng, pc, calls>>

SetSetup(downforce, engine_mode, ers_deployment) ==
    /\ pc = Idle
    /\ LET c == set_setup(cars.self, downforce, engine_mode, ers_deployment)
       IN  /\ cars' = IF Raised(c) THEN cars ELSE [cars EXCEPT !.self = c]
           /\ ret' = Outcome("set_setup",
                             <<downforce, engine_mode, ers_deployment>>,
                             IF Raised(c) THEN c ELSE None)
    /\ laps_log' = <<>>
    /\ UNCHANGED <<sim, temp_sim, rng, pc, calls>>

UpdateTireState(lap_number, sector_type) ==
    /\ pc = Idle
    /\ cars' = [cars EXCEPT
                  !.self = update_tire_state(cars.self, lap_number, sector_type)]
    /\ ret' = Returned("update_tire_state", <<lap_number, sector_type>>, None)
    /\ laps_log' = <<>>
    /\ UNCHANGED <<sim, temp_sim, rng, pc, calls>>

GetTirePerformance(lap_number_opt) ==
    /\ pc = Idle
    /\ ret' = Returned("get_tire_performance", <<lap_number_opt>>,
                       get_tire_performance(cars.self, lap_number_opt))
    /\ UNCHANGED <<cars, sim, temp_sim, rng, pc, calls, laps_log>>

\* get_engine_performance, get_aerodynamic_balance and get_fuel_effect
\* called on the engine's Car: none of them assigns an attribute.
GetEnginePerformance ==
    /\ pc = Idle
    /\ ret' = Returned("get_engine_performance", <<>>,
                       get_engine_performance(cars.self))
    /\ UNCHANGED <<cars, sim, temp_sim, rng, pc, calls, laps_log>>

GetAerodynamicBalance ==
    /\ pc = Idle
    /\ ret' = Returned("get_aerodynamic_balance", <<>>,
                       get_aerodynamic_balance(cars.self))
    /\ UNCHANGED <<cars, sim, temp_sim, rng, pc, calls, laps_log>>

GetFuelEffect(circuit_length) ==
    /\ pc = Idle
    /\ ret' = Returned("get_fuel_effect", <<circuit_length>>,
                       get_fuel_effect(cars.self, circuit_length))
    /\ UNCHANGED <<cars, sim, temp_sim, rng, pc, calls, laps_log>>

\* calculate_tire_degradation applied to a lap number and compound data.
CalculateTireDegradation(current_lap, tire_data) ==
    /\ pc = Idle
    /\ ret' = Returned("calculate_tire_degradation", <<current_lap, tire_data>>,
                       calculate_tire_degradation(current_lap, tire_data))
    /\ UNCHANGED <<cars, sim, temp_sim, rng, pc, calls, laps_log>>

\* fuel_weight_to_lap_time applied to a fuel load and a circuit length.
FuelWeightToLapTime(fuel_kg, circuit_length) ==
    /\ pc = Idle
    /\ ret' = Returned("fuel_weight_to_lap_time", <<fuel_kg, circuit_length>>,
                       fuel_weight_to_lap_time_us(fuel_kg, circuit_length))
    /\ UNCHANGED <<cars, sim, temp_sim, rng, pc, calls, laps_log>>

\* apply_weather_effect applied to a time, the data of a weather and a
\* compound.
ApplyWeatherEffect(base_time, weather, tire_compound) ==
    /\ pc = Idle
    /\ ret' = Returned("apply_weather_effect",
                       <<base_time, weather, tire_compound>>,
                       apply_weather_effect(base_time, weather_conditions[weather],
                                            tire_compound))
    /\ UNCHANGED <<cars, sim, temp_sim, rng, pc, calls, laps_log>>

\* calculate_drs_benefit applied to the data of a sector.
CalculateDrsBenefit(sector_data, has_drs) ==
    /\ pc = Idle
    /\ ret' = Returned("calculate_drs_benefit", <<sector_data, has_drs>>,
                       calculate_drs_benefit(sector_data, has_drs))
    /\ UNCHANGED <<cars, sim, temp_sim, rng, pc, calls, laps_log>>

\* validate_inputs applied to three names and a fuel load.
ValidateInputs(circuit, tire_compound, fuel_load, weather) ==
    /\ pc = Idle
    /\ ret' = Returned("validate_inputs",
                       <<circuit, tire_compound, fuel_load, weather>>,
                       validate_inputs(circuit, tire_compound, fuel_load,
                                       weather))
    /\ UNCHANGED <<cars, sim, temp_sim, rng, pc, calls, laps_log>>

(***************************************************************************)
(* Circuit operations, called on the engine's circuit.                     *)
(***************************************************************************)
\* Circuit(circuit_name): the Circuit returned, or the error raised.
ConstructCircuit(circuit_name) ==
    /\ pc = Idle
    /\ ret' = Outcome("Circuit", <<circuit_name>>, Circuit(circuit_name))
    /\ UNCHANGED <<cars, sim, temp_sim, rng, pc, calls, laps_log>>

GetSectorData(sector_number) ==
    /\ pc = Idle
    /\ ret' = Returned("get_sector_data", <<sector_number>>,
                       get_sector_data(sim.circuit, sector_number))
    /\ UNCHANGED <<cars, sim, temp_sim, rng, pc, calls, laps_log>>

CalculateSectorDifficulty(sector_number) ==
    /\ pc = Idle
    /\ ret' = Returned("calculate_sector_difficulty", <<sector_number>>,
                       calculate_sector_difficulty(sim.circuit, sector_number))
    /\ UNCHANGED <<cars, sim, temp_sim, rng, pc, calls, laps_log>>

GetSectorBaseTime(sector_number) ==
    /\ pc = Idle
    /\ ret' = Returned("get_sector_base_time", <<sector_number>>,
                       get_sector_base_time(sim.circuit, sector_number))
    /\ UNCHANGED <<cars, sim, temp_sim, rng, pc, calls, laps_log>>

GetAverageSpeedEstimate(sector_number) ==
    /\ pc = Idle
    /\ ret' = Returned("get_average_speed_estimate", <<sector_number>>,
                       get_average_speed_estimate(sim.circuit, sector_number))
    /\ UNCHANGED <<cars, sim, temp_sim, rng, pc, calls, laps_log>>

ClassifyCircuitType ==
    /\ pc = Idle
    /\ ret' = Outcome("_classify_circuit_type", <<>>,
                      classify_circuit_type(sim.circuit))
    /\ UNCHANGED <<cars, sim, temp_sim, rng, pc, calls, laps_log>>

(***************************************************************************)
(* The engine built again, and its settings.                               *)
(***************************************************************************)
\* LapSimulator(circuit, car, weather) on the engine's circuit and Car: the
\* engine becomes the new one, unless the constructor raises.
ConstructEngine(weather) ==
    /\ pc = Idle
    /\ LET s == LapSimulator(sim.circuit, sim.car, weather)
       IN  /\ sim' = IF Raised(s) THEN sim ELSE s
           /\ ret' = Outcome("LapSimulator", <<weather>>,
                             IF Raised(s) THEN s ELSE None)
    /\ laps_log' = <<>>
    /\ UNCHANGED <<cars, temp_sim, rng, pc, calls>>

SetDriverParameters(aggression, use_drs) ==
    /\ pc = Idle
    /\ LET s == set_driver_parameters(sim, aggression, use_drs)
       IN  /\ sim' = IF Raised(s) THEN sim ELSE s
           /\ ret' = Outcome("set_driver_parameters", <<aggression, use_drs>>,
                             IF Raised(s) THEN s ELSE None)
    /\ laps_log' = <<>>
    /\ UNCHANGED <<cars, temp_sim, rng, pc, calls>>

SetTrackCondition(condition) ==
    /\ pc = Idle
    /\ LET s == set_track_condition(sim, condition)
       IN  /\ sim' = IF Raised(s) THEN sim ELSE s
           /\ ret' = Outcome("set_track_condition", <<condition>>,
                             IF Raised(s) THEN s ELSE None)
    /\ laps_log' = <<>>
    /\ UNCHANGED <<cars, temp_sim, rng, pc, calls>>

GetOptimalSetupSuggestions ==
    /\ pc = Idle
    /\ ret' = Outcome("get_optimal_setup_suggestions", <<>>,
                      get_optimal_setup_suggestions(sim))
    /\ UNCHANGED <<cars, sim, temp_sim, rng, pc, calls, laps_log>>

\* sim.simulation_variance = variance: the attribute of the engine assigned.
SetSimulationVariance(variance) ==
    /\ pc = Idle
    /\ sim' = [sim EXCEPT !.simulation_variance = variance]
    /\ ret' = Returned("simulation_variance", <<variance>>, None)
    /\ laps_log' = <<>>
    /\ UNCHANGED <<cars, temp_sim, rng, pc, calls>>

(***************************************************************************)
(* calculate_sector_time called on the engine.                             *)
(***************************************************************************)
\* The call of calculate_sector_time whose outcome is r.
SectorTimeTo(sector_number, lap_number, r) ==
    /\ cars' = [cars EXCEPT ![sim.car] = r.car]
    /\ rng' = r.rng
    /\ ret' = Outcome("calculate_sector_time", <<sector_number, lap_number>>,
                      r.result)
    /\ laps_log' = <<>>
    /\ calls' = calls + 1
    /\ UNCHANGED <<sim, temp_sim, pc>>

CalculateSectorTime(sector_number, lap_number) ==
    /\ CanCall
    /\ SectorTimeTo(sector_number, lap_number,
                    calculate_sector_time(sim, cars[sim.car], rng, sector_number,
                                          lap_number))

(***************************************************************************)
(* simulate_full_lap: the call, then one step per sector.                  *)
(***************************************************************************)
SimulateFullLap(lap_number) ==
    /\ CanCall
    /\ calls' = calls + 1
    /\ IF get_total_sectors(sim.circuit) = 0
       THEN /\ ret' = Failed("simulate_full_lap", <<lap_number>>,
                             lap_result(sim, cars[sim.car], lap_number, <<>>, 0, <<>>))
            /\ pc' = pc
            /\ laps_log' = <<>>
       ELSE /\ pc' = [op |-> "simulate_full_lap", args |-> <<lap_number>>,
                      entry |-> [car |-> cars[sim.car], rng |-> rng],
                      lap |-> lap_frame(lap_number)]
            /\ ret' = NoResult
            /\ laps_log' = laps_log
    /\ UNCHANGED <<cars, sim, temp_sim, rng>>

\* The log with one more returned lap, the last two kept.
Logged(log, entry, result) ==
    LET l == Append(log, [car |-> entry.car, rng |-> entry.rng, result |-> result])
    IN  IF Len(l) > 2 THEN Tail(l) ELSE l

\* The step of simulate_full_lap whose loop iteration has the outcome o.
LapStepTo(o) ==
    /\ cars' = o.cars
    /\ rng' = o.rng
    /\ CASE o.status = "more" ->
              /\ pc' = [pc EXCEPT !.lap = o.frame]
              /\ UNCHANGED <<ret, laps_log>>
         [] o.status = "done" ->
              /\ pc' = Idle
              /\ ret' = Returned(pc.op, pc.args, o.result)
              /\ laps_log' = Logged(laps_log, pc.entry, o.result)
         [] o.status = "raised" ->
              /\ pc' = Idle
              /\ ret' = Failed(pc.op, pc.args, o.result)
              /\ laps_log' = <<>>
    /\ UNCHANGED <<sim, temp_sim, calls>>

LapStep ==
    /\ pc.op = "simulate_full_lap"
    /\ LapStepTo(lap_iteration(sim, cars, rng, pc.lap))

(***************************************************************************)
(* simulate_stint: the call, then one step per sector of each lap.         *)
(***************************************************************************)
SimulateStint(num_laps, start_lap) ==
    /\ CanCall
    /\ calls' = calls + 1
    /\ laps_log' = <<>>
    /\ LET args == <<num_laps, start_lap>>
       IN  IF num_laps <= 0
           THEN /\ ret' = Returned("simulate_stint", args, <<>>)
                /\ pc' = pc
           ELSE IF get_total_sectors(sim.circuit) = 0
           THEN /\ ret' = Failed("simulate_stint", args,
                                 lap_result(sim, cars[sim.car], start_lap, <<>>, 0, <<>>))
                /\ pc' = pc
           ELSE /\ pc' = [op |-> "simulate_stint", args |-> args,
                          stint_results |-> <<>>, lap |-> lap_frame(start_lap)]
                /\ ret' = NoResult
    /\ UNCHANGED <<cars, sim, temp_sim, rng>>

\* The step of simulate_stint whose loop iteration of simulate_full_lap has
\* the outcome o; when that ends a lap, line 268 sets the Car's current lap
\* and the next lap starts or the stint returns.
StintStepTo(o, lap, num_laps, start_lap) ==
    /\ rng' = o.rng
    /\ CASE o.status = "more" ->
              /\ cars' = o.cars
              /\ pc' = [pc EXCEPT !.lap = o.frame]
              /\ ret' = ret
         [] o.status = "raised" ->
              /\ cars' = o.cars
              /\ pc' = Idle
              /\ ret' = Failed(pc.op, pc.args, o.result)
         [] o.status = "done" ->
              /\ cars' = [o.cars EXCEPT ![sim.car] =
                            stint_next_lap_car(o.cars[sim.car], lap)]
              /\ IF lap + 1 < start_lap + num_laps
                 THEN /\ pc' = [pc EXCEPT
                                  !.stint_results = Append(pc.stint_results, o.result),
                                  !.lap = lap_frame(lap + 1)]
                      /\ ret' = ret
                 ELSE /\ pc' = Idle
                      /\ ret' = Returned(pc.op, pc.args,
                                         Append(pc.stint_results, o.result))
    /\ UNCHANGED <<sim, temp_sim, calls, laps_log>>

StintStep ==
    /\ pc.op = "simulate_stint"
    /\ StintStepTo(lap_iteration(sim, cars, rng, pc.lap), pc.lap.lap_number,
                   pc.args[1], pc.args[2])

(***************************************************************************)
(* compare_configurations: the call builds the first temp_car and          *)
(* temp_sim; then one step per sector of each configuration's lap; the     *)
(* step that ends the last lap sorts and returns.                          *)
(***************************************************************************)
\* The loop of compare_configurations entering configuration i (from 0)
\* with temp_car tc and temp_sim ts, error being what building them or the
\* lap on a circuit of no sector raises, or None: the state as the lap of
\* temp_sim starts, or as the call ends.
CompareEnterWith(configurations, i, results, cs, tc, ts, error) ==
    IF error # None
    THEN /\ pc' = Idle
         /\ ret' = Failed("compare_configurations", <<configurations>>, error)
         /\ cars' = [cs EXCEPT !.temp = None]
         /\ temp_sim' = None
    ELSE /\ pc' = [op |-> "compare_configurations", args |-> <<configurations>>,
                   i |-> i, results |-> results, lap |-> lap_frame(1)]
         /\ ret' = NoResult
         /\ cars' = [cs EXCEPT !.temp = tc]
         /\ temp_sim' = ts

\* What building tc and ts raised, or the lap on a circuit of no sector.
compare_error(tc, ts) ==
    IF Raised(tc) THEN tc
    ELSE IF Raised(ts) THEN ts
    ELSE IF get_total_sectors(ts.circuit) = 0
    THEN lap_result(ts, tc, 1, <<>>, 0, <<>>)
    ELSE None

CompareEnter(configurations, i, results, cs) ==
    CompareEnterWith(configurations, i, results, cs,
                     temp_car_of(configurations[i + 1]),
                     new_temp_sim(sim, "temp"),
                     compare_error(temp_car_of(configurations[i + 1]),
                                   new_temp_sim(sim, "temp")))

CompareConfigurations(configurations) ==
    /\ CanCall
    /\ calls' = calls + 1
    /\ laps_log' = <<>>
    /\ IF configurations = <<>>
       THEN /\ ret' = Returned("compare_configurations", <<configurations>>,
                               sort_by_total_time(<<>>))
            /\ UNCHANGED <<cars, temp_sim, pc>>
       ELSE CompareEnter(configurations, 0, <<>>, cars)
    /\ UNCHANGED <<sim, rng>>

\* compare_configurations lines 304-306: the lap result with its
\* configuration and index.
config_result(lap, configurations, i) ==
    [k \in DOMAIN lap \cup {"configuration", "config_index"} |->
        IF k = "configuration" THEN configurations[i + 1]
        ELSE IF k = "config_index" THEN i
        ELSE lap[k]]

\* The step of compare_configurations whose loop iteration of
\* simulate_full_lap on temp_sim has the outcome o.
CompareStepTo(o, configurations) ==
    /\ rng' = o.rng
    /\ CASE o.status = "more" ->
              /\ cars' = o.cars
              /\ pc' = [pc EXCEPT !.lap = o.frame]
              /\ UNCHANGED <<ret, temp_sim>>
         [] o.status = "raised" ->
              /\ cars' = [o.cars EXCEPT !.temp = None]
              /\ temp_sim' = None
              /\ pc' = Idle
              /\ ret' = Failed(pc.op, pc.args, o.result)
         [] o.status = "done" ->
              IF pc.i + 1 < Len(configurations)
              THEN CompareEnter(configurations, pc.i + 1,
                                Append(pc.results,
                                       config_result(o.result, configurations, pc.i)),
                                o.cars)
              ELSE /\ pc' = Idle
                   /\ ret' = Returned(pc.op, pc.args,
                                sort_by_total_time(
                                    Append(pc.results,
                                           config_result(o.result, configurations,
                                                         pc.i))))
                   /\ cars' = [o.cars EXCEPT !.temp = None]
                   /\ temp_sim' = None
    /\ UNCHANGED <<sim, calls, laps_log>>

CompareStep ==
    /\ pc.op = "compare_configurations"
    /\ CompareStepTo(lap_iteration(temp_sim, cars, rng, pc.lap), pc.args[1])

(***************************************************************************)
(* The random source seeded again: the tape is replayed from its start.    *)
(***************************************************************************)
Reseed ==
    /\ pc = Idle
    /\ rng.pos # 0
    /\ rng' = Reseeded(rng)
    /\ UNCHANGED <<cars, sim, temp_sim, pc, ret, calls, laps_log>>

(***************************************************************************)
(* The engine: every evaluation, on one circuit per run.                   *)
(***************************************************************************)
Next ==
    \/ \E s \in 1..3, l \in 1..MaxLap : CalculateSectorTime(s, l)
    \/ \E l \in 1..MaxLap : SimulateFullLap(l)
    \/ LapStep
    \/ \E n \in 0..MaxStint, k \in 1..MaxLap : SimulateStint(n, k)
    \/ StintStep
    \/ \E cfgs \in ConfigLists : CompareConfigurations(cfgs)
    \/ CompareStep
    \/ Reseed

Spec == Init /\ [][Next]_vars

(***************************************************************************)
(* Laps and single sectors, in every weather and with every driver.        *)
(***************************************************************************)
InitLap == InitWith(Circuits, Tires, Weathers, Drivers, Tapes)

NextLap ==
    \/ \E s \in 1..3, l \in 1..MaxLap : CalculateSectorTime(s, l)
    \/ \E l \in 1..MaxLap : SimulateFullLap(l)
    \/ LapStep
    \/ Reseed

SpecLap == InitLap /\ [][NextLap]_vars

(***************************************************************************)
(* Stints.                                                                 *)
(***************************************************************************)
InitStint == InitWith(Circuits, Tires, {"dry"}, {<<5000, TRUE>>}, Tapes)

NextStint ==
    \/ \E n \in 0..MaxStint, k \in 1..MaxLap : SimulateStint(n, k)
    \/ StintStep

SpecStint == InitStint /\ [][NextStint]_vars

(***************************************************************************)
(* Comparisons.                                                            *)
(***************************************************************************)
InitCompare == InitWith(Circuits, {"soft"}, Weathers, Drivers, Tapes)

NextCompare ==
    \/ \E cfgs \in ConfigLists : CompareConfigurations(cfgs)
    \/ CompareStep

SpecCompare == InitCompare /\ [][NextCompare]_vars

(***************************************************************************)
(* The tire temperature: update_tire_state called on the engine's Car any  *)
(* number of times, and each evaluation of the engine.                     *)
(***************************************************************************)
InitTemp == InitWith({Circuit("monza"), Circuit("monaco")}, {"soft"}, {"dry"},
                     {<<5000, TRUE>>}, {<<5000>>})

NextTemp ==
    \/ \E type \in SectorTypes : UpdateTireState(1, type)
    \/ \E s \in 1..3 : CalculateSectorTime(s, 1)
    \/ SimulateFullLap(1)
    \/ LapStep
    \/ SimulateStint(2, 1)
    \/ StintStep
    \/ CompareConfigurations(<<[tire |-> "soft", fuel |-> 30]>>)
    \/ CompareStep

SpecTemp == InitTemp /\ [][NextTemp]_vars

(***************************************************************************)
(* calculate_tire_degradation on every lap number and compound data.       *)
(***************************************************************************)
InitTire == InitWith({TestTrack}, DOMAIN tire_compounds, {"dry"},
                     {<<5000, TRUE>>}, {<<5000>>})

NextDegradation ==
    \E l \in 1..MaxTireLap, d \in TireData : CalculateTireDegradation(l, d)

SpecDegradation == InitTire /\ [][NextDegradation]_vars

(***************************************************************************)
(* get_tire_performance of a Car of every compound at every tire           *)
(* temperature update_tire_state leads to.                                 *)
(***************************************************************************)
NextGrip ==
    \/ \E l \in 1..MaxLap, type \in SectorTypes : UpdateTireState(l, type)
    \/ GetTirePerformance(<<>>)
    \/ \E l \in 1..MaxTireLap : GetTirePerformance(<<l>>)

SpecGrip == InitTire /\ [][NextGrip]_vars

(***************************************************************************)
(* Car and set_setup with valid and invalid arguments.                     *)
(***************************************************************************)
NextCar ==
    \/ \E t \in Tires \cup {"slick"}, f \in FuelLoads : ConstructCar(t, f)
    \/ \E d \in Downforces, e \in EngineModes, m \in ErsModes : SetSetup(d, e, m)

SpecCar == InitTire /\ [][NextCar]_vars

(***************************************************************************)
(* Names and settings, valid and invalid: Circuit, Car, LapSimulator,      *)
(* set_driver_parameters and set_track_condition.                          *)
(***************************************************************************)
InitSettings == InitWith({Circuit("monza"), TestTrack}, Tires, {"dry"},
                         {<<5000, TRUE>>}, {<<5000>>})

NextSettings ==
    \/ \E a \in Aggressions, d \in BOOLEAN : SetDriverParameters(a, d)
    \/ \E c \in TrackConditionNames : SetTrackCondition(c)
    \/ \E w \in WeatherNames : ConstructEngine(w)
    \/ \E n \in CircuitNames : ConstructCircuit(n)
    \/ \E t \in Tires \cup {"slick"} : ConstructCar(t, 50)

SpecSettings == InitSettings /\ [][NextSettings]_vars

(***************************************************************************)
(* The operations of Circuit on circuits of one segment of every kind, on  *)
(* circuits of the reference data and on one whose sector numbers have a   *)
(* gap.                                                                    *)
(***************************************************************************)
InitTrack ==
    InitWith(OneSegmentTracks \cup {Circuit("oval"), Circuit("monza"), GapTrack},
             {"soft"}, {"dry"}, {<<5000, TRUE>>}, {<<5000>>})

NextTrack ==
    \/ \E n \in 1..3 : GetSectorData(n)
    \/ \E n \in 1..3 : CalculateSectorDifficulty(n)
    \/ \E n \in 1..3 : GetSectorBaseTime(n)
    \/ \E n \in 1..3 : GetAverageSpeedEstimate(n)
    \/ ClassifyCircuitType

SpecTrack == InitTrack /\ [][NextTrack]_vars

(***************************************************************************)
(* fuel_weight_to_lap_time on every fuel load and circuit length.          *)
(***************************************************************************)
NextFuel ==
    \E f \in FuelMasses, l \in TrackLengths : FuelWeightToLapTime(f, l)

SpecFuel == InitTire /\ [][NextFuel]_vars

(***************************************************************************)
(* Laps and single sectors on circuits with DRS zones, one of them so      *)
(* short that the DRS benefit is more than the time of its sector.         *)
(***************************************************************************)
InitDrs == InitWith({Circuit("strip"), Circuit("monza")}, Tires, Weathers,
                    Drivers, Tapes)

SpecDrs == InitDrs /\ [][NextLap]_vars

(***************************************************************************)
(* Every evaluation of an engine on a custom circuit, with arguments that  *)
(* name sectors of the circuit and configurations that are valid.          *)
(***************************************************************************)
InitCustom == InitWith({EmptyTrack, TestTrack, FlatTrack}, {"soft"}, Weathers,
                       {<<5000, TRUE>>}, {<<5000>>})

NextCustom ==
    \/ \E s \in 1..2 : (OnTrack(sim.circuit, s) /\ CalculateSectorTime(s, 1))
    \/ SimulateFullLap(1)
    \/ LapStep
    \/ SimulateStint(2, 1)
    \/ StintStep
    \/ \E cfgs \in ValidConfigLists : CompareConfigurations(cfgs)
    \/ CompareStep
    \/ GetOptimalSetupSuggestions

SpecCustom == InitCustom /\ [][NextCustom]_vars

(***************************************************************************)
(* validate_inputs, and the three constructors, on names in the reference  *)
(* data and not and on fuel loads inside and outside 0..110.               *)
(***************************************************************************)
NextValidate ==
    \/ \E n \in CircuitNames, t \in CompoundNames, f \in FuelLoads,
          w \in WeatherNames : ValidateInputs(n, t, f, w)
    \/ \E n \in CircuitNames : ConstructCircuit(n)
    \/ \E t \in CompoundNames, f \in FuelLoads : ConstructCar(t, f)
    \/ \E w \in WeatherNames : ConstructEngine(w)

SpecValidate == InitSettings /\ [][NextValidate]_vars

(***************************************************************************)
(* Sectors and laps with the variance on and off, for every driver.        *)
(***************************************************************************)
InitRandom == InitWith({Circuit("monza"), TestTrack, FlatTrack}, {"soft"},
                       Weathers, Drivers, DrawTapes)

NextRandom ==
    \/ \E v \in Variances : SetSimulationVariance(v)
    \/ \E s \in 1..3, l \in 1..MaxLap : CalculateSectorTime(s, l)
    \/ \E l \in 1..MaxLap : SimulateFullLap(l)
    \/ LapStep
    \/ Reseed

SpecRandom == InitRandom /\ [][NextRandom]_vars

(***************************************************************************)
(* Sectors and laps on compounds that suit the weather and that do not,    *)
(* and apply_weather_effect on its own.                                    *)
(***************************************************************************)
InitWarnings == InitWith({Circuit("monza"), TestTrack}, Tires, Weathers,
                         {<<5000, TRUE>>}, {<<0, 100, 9999>>})

NextWarnings ==
    \/ \E b \in WeatherBaseTimes, w \in Weathers, t \in DOMAIN tire_compounds :
           ApplyWeatherEffect(b, w, t)
    \/ \E s \in 1..3, l \in 1..MaxLap : CalculateSectorTime(s, l)
    \/ \E l \in 1..MaxLap : SimulateFullLap(l)
    \/ LapStep

SpecWarnings == InitWarnings /\ [][NextWarnings]_vars

(***************************************************************************)
(* Sectors and laps with DRS enabled and disabled, on circuits with DRS    *)
(* zones in some sectors and on a custom circuit, which has none; and      *)
(* calculate_drs_benefit on its own.                                       *)
(***************************************************************************)
InitZones == InitWith({Circuit("monza"), Circuit("monaco"), TestTrack}, {"soft"},
                      {"dry"}, Drivers, {<<0, 100, 9999>>})

NextZones ==
    \/ \E d \in DrsSectorData, h \in BOOLEAN : CalculateDrsBenefit(d, h)
    \/ \E s \in 1..3, l \in 1..MaxLap : CalculateSectorTime(s, l)
    \/ \E l \in 1..MaxLap : SimulateFullLap(l)
    \/ LapStep
    \/ Reseed

SpecZones == InitZones /\ [][NextZones]_vars

(***************************************************************************)
(* The setup advisory on catalog and custom circuits, in every weather and *)
(* for every setup of the Car.                                             *)
(***************************************************************************)
InitAdvisory == InitWith(Circuits, Tires, Weathers, Drivers, {<<5000>>})

NextAdvisory ==
    \/ GetOptimalSetupSuggestions
    \/ \E d \in Downforces, e \in EngineModes, m \in ErsModes : SetSetup(d, e, m)
    \/ \E w \in WeatherNames : ConstructEngine(w)

SpecAdvisory == InitAdvisory /\ [][NextAdvisory]_vars

(***************************************************************************)
(* The sub-models of the Car: its four queries, update_tire_state and      *)
(* set_setup.                                                              *)
(***************************************************************************)
InitSubModels == InitWith({TestTrack}, {"soft"}, {"dry"}, {<<5000, TRUE>>},
                          {<<5000>>})

NextSubModels ==
    \/ \E l \in 1..MaxLap, type \in SectorTypes : UpdateTireState(l, type)
    \/ GetTirePerformance(<<>>)
    \/ \E l \in 1..MaxTireLap : GetTirePerformance(<<l>>)
    \/ GetEnginePerformance
    \/ GetAerodynamicBalance
    \/ \E length \in TrackLengths : GetFuelEffect(length)
    \/ \E d \in {3, 11} : SetSetup(d, "quali", "aggressive")

SpecSubModels == InitSubModels /\ [][NextSubModels]_vars

(***************************************************************************)
(* Comparisons on an engine whose settings were changed: variance, track   *)
(* condition and driver parameters.                                        *)
(***************************************************************************)
InitCandidates == InitWith({Circuit("monza"), TestTrack}, {"soft"}, Weathers,
                           Drivers, {<<0, 100, 9999>>})

NextCandidates ==
    \/ \E v \in Variances : SetSimulationVariance(v)
    \/ \E c \in DOMAIN track_conditions : SetTrackCondition(c)
    \/ \E cs \in ValidConfigLists : CompareConfigurations(cs)
    \/ CompareStep

SpecCandidates == InitCandidates /\ [][NextCandidates]_vars

(***************************************************************************)
(* Properties.                                                             *)
(***************************************************************************)
\* The value simulate_full_lap returned, when the last operation was a
\* simulate_full_lap that returned.
LapReturned == ret.op = "simulate_full_lap" /\ ret.raised = ""

\* C1: the total time of the LapResult simulate_full_lap returns is the sum
\* of its sector times, and it has one sector time per sector of the
\* circuit, the i-th being the time of sector number i.
C1_TotalIsSumOfSectorTimes ==
    LapReturned =>
        /\ ret.value.total_time = SumSeq(ret.value.sector_times)
        /\ Len(ret.value.sector_times) = get_total_sectors(sim.circuit)
        /\ Len(ret.value.sector_results) = get_total_sectors(sim.circuit)
        /\ \A i \in 1..get_total_sectors(sim.circuit) :
               /\ ret.value.sector_results[i].sector_number = i
               /\ ret.value.sector_times[i] = ret.value.sector_results[i].time

\* C1 happens: a lap of three sectors returned, one of them with a driver
\* mistake, under a lap number other than 1.
C1_Witness ==
    /\ LapReturned
    /\ ret.args[1] = 2
    /\ Len(ret.value.sector_times) = 3
    /\ \E i \in 1..3 :
           "driver_mistake" \in DOMAIN ret.value.sector_results[i].modifiers

\* Two simulate_full_lap calls returned one after the other, nothing else
\* touching the Car in between, with the same lap number and the random
\* source replaying the same draws.
SuccessiveLaps ==
    /\ Len(laps_log) = 2
    /\ laps_log[1].result.lap_number = laps_log[2].result.lap_number
    /\ laps_log[1].rng = laps_log[2].rng

\* C2 as claimed: two such calls return the same sector times, total time
\* and warnings.
C2_SuccessiveLapsIdentical ==
    SuccessiveLaps =>
        /\ laps_log[1].result.sector_times = laps_log[2].result.sector_times
        /\ laps_log[1].result.total_time = laps_log[2].result.total_time
        /\ laps_log[1].result.warnings = laps_log[2].result.warnings

\* C2 amended: two such calls that also start at the same tire temperature
\* return the same dictionary.
C2_SameTemperatureLapsIdentical ==
    ( /\ SuccessiveLaps
      /\ laps_log[1].car.tire_temperature = laps_log[2].car.tire_temperature )
    => laps_log[1].result = laps_log[2].result

\* C2 amended happens: the second lap started at the tire temperature of
\* the first, with another current lap of the Car and after draws of the
\* random source.
C2_Witness ==
    /\ SuccessiveLaps
    /\ laps_log[1].car.tire_temperature = laps_log[2].car.tire_temperature
    /\ laps_log[1].car.current_lap # laps_log[2].car.current_lap
    /\ Len(laps_log[1].rng.tape) > 1
    /\ laps_log[1].result.total_time > 0

\* The last operation was a compare_configurations that returned.
CompareReturned == ret.op = "compare_configurations" /\ ret.raised = ""

\* C3: the list compare_configurations returns has every index of the
\* input list once as config_index, with that configuration and as many
\* results as configurations; its total times never decrease; results of
\* the same total time are in the order of the input.
C3_ComparisonIsStableSortedPermutation ==
    CompareReturned =>
        LET configurations == ret.args[1]
            results == ret.value
        IN  /\ Len(results) = Len(configurations)
            /\ \A idx \in 0..(Len(configurations) - 1) :
                   \E p \in 1..Len(results) :
                       /\ results[p].config_index = idx
                       /\ results[p].configuration = configurations[idx + 1]
                       /\ \A q \in 1..Len(results) :
                              results[q].config_index = idx => q = p
            /\ \A p, q \in 1..Len(results) :
                   p < q =>
                       /\ results[p].total_time <= results[q].total_time
                       /\ results[p].total_time = results[q].total_time
                              => results[p].config_index < results[q].config_index

\* C3 happens: a comparison returned two results of the same total time.
C3_Witness ==
    /\ CompareReturned
    /\ Len(ret.value) = 2
    /\ ret.value[1].total_time = ret.value[2].total_time

\* A step of compare_configurations: its call or a step of its loop.
CompareStepTaken ==
    \/ pc.op = "compare_configurations"
    \/ pc'.op = "compare_configurations"
    \/ (ret'.op = "compare_configurations" /\ calls' # calls)

\* C4: no step of compare_configurations changes the engine's own Car (its
\* current lap, tire temperature, compound, fuel load, setup) or the
\* engine's aggression, DRS and track condition.
C4_CompareLeavesEngineAndCarAlone ==
    [][CompareStepTaken => (cars'.self = cars.self /\ sim' = sim)]_vars

\* C4 happens: a comparison of two configurations returned on an engine
\* whose own Car had run a lap before.
C4_Witness ==
    /\ CompareReturned
    /\ Len(ret.value) = 2
    /\ cars.self.tire_temperature # 90

\* The last operation was a simulate_stint that returned.
StintReturned == ret.op = "simulate_stint" /\ ret.raised = ""

\* A step of simulate_stint that ends a lap and starts the next one.
NextLapStarts ==
    /\ pc.op = "simulate_stint"
    /\ pc'.op = "simulate_stint"
    /\ pc'.lap.lap_number = pc.lap.lap_number + 1

\* The tire temperature after a sector of type type entered at temp.
TemperatureAfter(temp, type) ==
    LET t == temp + (CASE type = "low_speed"  -> -2
                       [] type = "high_speed" -> 3
                       [] OTHER               -> 0)
    IN  IF t < 60 THEN 60 ELSE IF t > 140 THEN 140 ELSE t

\* C5: simulate_stint(N, k) returns N lap results with the lap numbers k,
\* k+1, ..., k+N-1 in this order, and the Car is not reset between its
\* laps: the next lap starts with the tire temperature the last sector of
\* the lap before left and with that lap as the Car's current lap.
C5_StintLapsInOrderCarCarriedOver ==
    [][ /\ StintReturned' =>
              /\ Len(ret'.value) = ret'.args[1]
              /\ \A i \in 1..Len(ret'.value) :
                     ret'.value[i].lap_number = ret'.args[2] + i - 1
        /\ NextLapStarts =>
              /\ pc'.lap.sector_num = 1
              /\ cars'.self.current_lap = pc.lap.lap_number
              /\ cars'.self.tire_temperature =
                     TemperatureAfter(cars.self.tire_temperature,
                         Get(get_sector_data(sim.circuit, pc.lap.sector_num),
                             "type", "medium_speed"))
      ]_vars

\* C5 happens: a stint of three laps from lap 2 returned, and the tires are
\* not at the temperature of a new Car.
C5_Witness ==
    /\ StintReturned
    /\ ret.args = <<3, 2>>
    /\ Len(ret.value) = 3
    /\ cars.self.tire_temperature # 90

\* The step of simulate_stint that evaluates the first sector of its first
\* lap.
FirstSectorOfStint ==
    /\ pc.op = "simulate_stint"
    /\ pc.stint_results = <<>>
    /\ pc.lap.sector_num = 1

\* C7: in a stint the Car's current lap is at least 1 after every sector,
\* and from one sector or lap of the stint to the next it never decreases;
\* when simulate_stint(N, k) with N >= 1 and k >= 1 returns, it is k+N-1.
C7_StintLapIndexMonotone ==
    [][ pc.op = "simulate_stint" =>
          /\ cars'.self.current_lap >= 1
          /\ ~FirstSectorOfStint =>
                 cars'.self.current_lap >= cars.self.current_lap
          /\ StintReturned' =>
                 cars'.self.current_lap = ret'.args[2] + ret'.args[1] - 1
      ]_vars

\* C7 happens: a second stint, started at a lap before the Car's current
\* lap, returned after two laps.
C7_Witness ==
    /\ StintReturned
    /\ calls = 2
    /\ ret.args = <<2, 1>>
    /\ cars.self.current_lap = 2

\* C6: the tire temperature of every Car, the engine's own and the
\* temp_car of a comparison, is within 60..140 in every state, whatever
\* tire-state updates and sector, lap, stint and comparison evaluations
\* came before.
C6_TireTemperatureClamped ==
    \A c \in DOMAIN cars :
        cars[c] # None =>
            /\ cars[c].tire_temperature >= 60
            /\ cars[c].tire_temperature <= 140

\* C6 happens: a stint returned with the tires at the upper end of the
\* range.
C6_Witness ==
    /\ StintReturned
    /\ Len(ret.value) = 2
    /\ cars.self.tire_temperature = 140

\* The last operation was a calculate_tire_degradation.
DegradationReturned == ret.op = "calculate_tire_degradation"

\* C8: the degradation multiplier is never below 0.7 and never above 1.0;
\* of two evaluations for the same compound data, one after the other, at
\* laps beyond the peak laps, the one at the later lap does not return more.
C8_DegradationBoundedAndNonIncreasing ==
    [][ DegradationReturned' =>
          /\ ret'.value >= 7000
          /\ ret'.value <= FS
          /\ ( /\ DegradationReturned
               /\ ret'.args[2] = ret.args[2]
               /\ ret.args[1] > Get(ret.args[2], "peak_performance_laps", 10)
               /\ ret'.args[1] >= ret.args[1] )
             => ret'.value <= ret.value
      ]_vars

\* C8 happens: an evaluation for the soft compound beyond its peak laps
\* returned the floor.
C8_Witness ==
    /\ DegradationReturned
    /\ ret.args[1] > Get(ret.args[2], "peak_performance_laps", 10)
    /\ ret.value = 7000
    /\ ret.args[2] = tire_compounds.soft

\* The last operation was a get_tire_performance.
TirePerformanceReturned == ret.op = "get_tire_performance"

\* C9: the effective grip get_tire_performance returns is above 0 and at
\* most 1.05 times the grip modifier of the Car's compound, for every
\* compound, lap number from 1 and tire temperature of the Car.
C9_EffectiveGripBounded ==
    TirePerformanceReturned =>
        /\ ret.value.effective_grip > 0
        /\ ret.value.effective_grip * 100
               <= tire_compounds[cars.self.tire_compound].grip_modifier * 105

\* C9 happens: the grip of cold tires beyond their peak laps was returned.
C9_Witness ==
    /\ TirePerformanceReturned
    /\ cars.self.tire_temperature = 60
    /\ ret.value.temperature_effect < FS
    /\ ret.value.degradation_multiplier < FS
    /\ ret.value.effective_grip < ret.value.base_grip

\* C10: Car with a fuel load outside 0..110 raises; set_setup with a
\* downforce outside 1..10 or an engine or ERS mode that is not valid raises
\* and leaves downforce, engine mode, ERS mode and drag coefficient as they
\* were; so the fuel load stays in 0..110 and the downforce in 1..10
\* whatever Car and set_setup calls are made.
C10_InvalidCarInputsRejected ==
    [][ /\ ( /\ ret'.op = "Car"
             /\ ~(0 <= ret'.args[2] /\ ret'.args[2] <= 110) )
           => (ret'.raised = "ValueError" /\ cars' = cars)
        /\ ( /\ ret'.op = "set_setup"
             /\ \/ ~(1 <= ret'.args[1] /\ ret'.args[1] <= 10)
                \/ ret'.args[2] \notin {"quali", "race", "conservation"}
                \/ ret'.args[3] \notin {"auto", "aggressive", "conservative"} )
           => /\ ret'.raised = "ValueError"
              /\ cars'.self.downforce_level = cars.self.downforce_level
              /\ cars'.self.engine_mode = cars.self.engine_mode
              /\ cars'.self.ers_deployment = cars.self.ers_deployment
              /\ cars'.self.drag_coefficient = cars.self.drag_coefficient
        /\ 0 <= cars'.self.fuel_load /\ cars'.self.fuel_load <= 110
        /\ 1 <= cars'.self.downforce_level /\ cars'.self.downforce_level <= 10
      ]_vars

\* C10 happens: set_setup with a valid downforce and an engine mode that is
\* not valid raised on a Car whose setup had been changed before.
C10_Witness ==
    /\ ret.op = "set_setup"
    /\ ret.raised = "ValueError"
    /\ ret.args[1] = 1
    /\ ret.args[2] = "turbo"
    /\ cars.self.downforce_level = 10
    /\ cars.self.fuel_load = 110

\* C11: set_driver_parameters with an aggression outside [0, 1] raises
\* ValueError and leaves the engine's aggression and DRS setting as they
\* were; with an aggression in [0, 1] it returns and both are the values
\* given.
C11_DriverParametersValidated ==
    [][ ret'.op = "set_driver_parameters" =>
          IF 0 <= ret'.args[1] /\ ret'.args[1] <= FS
          THEN /\ ret'.raised = ""
               /\ sim'.driver_aggression = ret'.args[1]
               /\ sim'.use_drs = ret'.args[2]
          ELSE /\ ret'.raised = "ValueError"
               /\ sim'.driver_aggression = sim.driver_aggression
               /\ sim'.use_drs = sim.use_drs
      ]_vars

\* C11 happens: an aggression just above 1 with DRS off was rejected by an
\* engine whose aggression had been set to 0 and that has DRS on.
C11_Witness ==
    /\ ret.op = "set_driver_parameters"
    /\ ret.raised = "ValueError"
    /\ ret.args = <<FS + 1, FALSE>>
    /\ sim.driver_aggression = 0
    /\ sim.use_drs

\* C12: Circuit with a name that is not in the reference data raises
\* ValueError and returns no Circuit, and the engine stays on the circuit
\* it has; with a name of the reference data it returns the Circuit of that
\* name with the sectors of its entry.
C12_UnknownCircuitRejected ==
    [][ ret'.op = "Circuit" =>
          IF ret'.args[1] \in DOMAIN circuits
          THEN /\ ret'.raised = ""
               /\ ret'.value.name = ret'.args[1]
               /\ ret'.value.sectors = circuits[ret'.args[1]].sectors
          ELSE /\ ret'.raised = "ValueError"
               /\ ret'.value = <<>>
               /\ sim' = sim
      ]_vars

\* C12 happens: the circuit name imola, not in the reference data, was
\* rejected.
C12_Witness ==
    /\ ret.op = "Circuit"
    /\ ret.args = <<"imola">>
    /\ ret.raised = "ValueError"

\* C13: Car with a compound name, LapSimulator with a weather name and
\* set_track_condition with a condition name that is not in the reference
\* data raise ValueError and leave the Car or the engine as it was (no
\* entry stands in for the missing one); so the compound, the weather and
\* the track condition in use are always names of the reference data.
C13_UnknownNamesRejected ==
    [][ /\ (ret'.op = "Car" /\ ret'.args[1] \notin DOMAIN tire_compounds)
           => (ret'.raised = "ValueError" /\ cars' = cars)
        /\ (ret'.op = "LapSimulator"
              /\ ret'.args[1] \notin DOMAIN weather_conditions)
           => (ret'.raised = "ValueError" /\ sim' = sim)
        /\ (ret'.op = "set_track_condition"
              /\ ret'.args[1] \notin DOMAIN track_conditions)
           => (ret'.raised = "ValueError" /\ sim' = sim)
        /\ cars'.self.tire_compound \in DOMAIN tire_compounds
        /\ sim'.weather \in DOMAIN weather_conditions
        /\ sim'.current_weather = weather_conditions[sim'.weather]
        /\ sim'.track_condition \in DOMAIN track_conditions
      ]_vars

\* C13 happens: the track condition icy, not in the reference data, was
\* rejected by an engine in heavy rain on a dusty track with wet tires.
C13_Witness ==
    /\ ret.op = "set_track_condition"
    /\ ret.args = <<"icy">>
    /\ ret.raised = "ValueError"
    /\ sim.track_condition = "dusty"
    /\ sim.weather = "heavy_rain"
    /\ cars.self.tire_compound = "wet"

\* C14: calculate_sector_time for a sector number that is not on the
\* circuit raises ValueError, returns no sector result, and leaves the
\* current lap and the tire temperature of the Car as they were.
C14_MissingSectorRaises ==
    [][ ( /\ ret'.op = "calculate_sector_time"
          /\ calls' # calls
          /\ ~OnTrack(sim.circuit, ret'.args[1]) )
        => /\ ret'.raised = "ValueError"
           /\ ret'.value = <<>>
           /\ cars'[sim.car].current_lap = cars[sim.car].current_lap
           /\ cars'[sim.car].tire_temperature = cars[sim.car].tire_temperature
      ]_vars

\* C14 happens: on the circuit with the sectors 1 and 3, sector 2 was asked
\* for under lap number 2 after sector 1 had been evaluated under lap
\* number 1.
C14_Witness ==
    /\ ret.op = "calculate_sector_time"
    /\ ret.raised = "ValueError"
    /\ ret.args = <<2, 2>>
    /\ sim.circuit.full_name = "Gap Track"
    /\ cars.self.tire_temperature = 88
    /\ cars.self.current_lap = 1

\* C15: for a sector number that is not on the circuit, get_sector_data,
\* get_sector_base_time, calculate_sector_difficulty and
\* get_average_speed_estimate fail, and so does _classify_circuit_type when
\* one of the numbers 1..get_total_sectors() it averages over is not on the
\* circuit; none returns a zero time or a default value.
C15_MissingSegmentFailsNotFound ==
    /\ ( /\ ret.op \in {"get_sector_data", "get_sector_base_time",
                         "calculate_sector_difficulty",
                         "get_average_speed_estimate"}
         /\ ~OnTrack(sim.circuit, ret.args[1]) )
       => ret.raised # ""
    /\ ( /\ ret.op = "_classify_circuit_type"
         /\ \E i \in 1..get_total_sectors(sim.circuit) : ~OnTrack(sim.circuit, i) )
       => ret.raised # ""

\* The circuit of 5000 m and base lap time 100 s whose only sector is
\* 5000 m long, medium_speed, with 10 turns and no elevation change.
OnOval == sim.circuit.name = "oval"

\* C17 as claimed: on that circuit the difficulty of sector 1 is 0.9 and
\* its base time 90 s, both within 5 %.
C17_OvalDifficultyAboutPointNine ==
    /\ (OnOval /\ ret.op = "calculate_sector_difficulty" /\ ret.args = <<1>>)
       => Abs(ret.value - 9000) <= 450
    /\ (OnOval /\ ret.op = "get_sector_base_time" /\ ret.args = <<1>>)
       => Abs(ret.value - 90000) <= 4500

\* C17 amended: on that circuit the difficulty of sector 1 is 1.1 (0.8, 0.2
\* for 2 turns per km, 0.1 for medium_speed) and its base time 110 s.
C17_OvalDifficultyOnePointOne ==
    /\ (OnOval /\ ret.op = "calculate_sector_difficulty" /\ ret.args = <<1>>)
       => ret.value = 11000
    /\ (OnOval /\ ret.op = "get_sector_base_time" /\ ret.args = <<1>>)
       => ret.value = 110000

\* C17 amended happens: the base time of sector 1 of that circuit was
\* returned.
C17_Witness ==
    /\ OnOval
    /\ sim.circuit.length = 5000
    /\ sim.circuit.base_lap_time = 100000
    /\ sim.circuit.sectors =
           << [number |-> 1, length |-> 5000, turns |-> 10,
               type |-> "medium_speed"] >>
    /\ ret.op = "get_sector_base_time"
    /\ ret.args = <<1>>
    /\ ret.value > 0

\* C18: the difficulty calculate_sector_difficulty returns is within
\* [0.5, 1.2] for every sector: any turn count from 0, length from 1 m,
\* category and elevation change.
C18_SectorDifficultyClamped ==
    ret.op = "calculate_sector_difficulty" =>
        (5000 <= ret.value /\ ret.value <= 12000)

\* C18 happens: the difficulty of a low-speed sector of 40 turns on 500 m
\* with an elevation change of 60, 1.6 before the clamp, was returned.
C18_Witness ==
    /\ ret.op = "calculate_sector_difficulty"
    /\ ret.args = <<1>>
    /\ sim.circuit.sectors =
           << [number |-> 1, length |-> 500, turns |-> 40, type |-> "low_speed",
               elevation_change |-> 60] >>
    /\ ret.value = 12000

\* The last operation was a fuel_weight_to_lap_time.
FuelPenaltyReturned == ret.op = "fuel_weight_to_lap_time"

\* C16: for a circuit length above 0 the fuel penalty is 0 at 0 kg; of two
\* evaluations for the same length, one after the other, the one for the
\* larger fuel load returns strictly more, and the two penalties are in the
\* ratio of the fuel loads; 110 kg against 20 kg on 5000 m is 5.5 to 1.
C16_FuelPenaltyLinear ==
    [][ FuelPenaltyReturned' =>
          /\ ret'.args[1] = 0 => ret'.value = 0
          /\ (FuelPenaltyReturned /\ ret'.args[2] = ret.args[2]) =>
                 /\ ret'.args[1] > ret.args[1] => ret'.value > ret.value
                 /\ ret'.value * ret.args[1] = ret.value * ret'.args[1]
          /\ ( /\ FuelPenaltyReturned
               /\ ret.args = <<20, 5000>>
               /\ ret'.args = <<110, 5000>> )
             => ret'.value * 10 = ret.value * 55
      ]_vars

\* C16 happens: the penalty of 110 kg on 5000 m, 19.25 s, was returned.
C16_Witness ==
    /\ FuelPenaltyReturned
    /\ ret.args = <<110, 5000>>
    /\ ret.value = 19250 * 1000

\* C19: the time of every sector result calculate_sector_time returns is at
\* least 0, whatever the configuration and the draws, also when the DRS
\* benefit is more than the time before it; so are the sector times and the
\* total time of every lap simulate_full_lap returns.
C19_TimesNonNegative ==
    /\ (ret.op = "calculate_sector_time" /\ ret.raised = "")
       => ret.value.time >= 0
    /\ LapReturned =>
           /\ ret.value.total_time >= 0
           /\ \A i \in 1..Len(ret.value.sector_times) :
                  /\ ret.value.sector_times[i] >= 0
                  /\ ret.value.sector_results[i].time >= 0

\* C19 happens: a sector with a DRS zone, evaluated with DRS on and a fuel
\* penalty above 0, got the time 0.
C19_Witness ==
    /\ ret.op = "calculate_sector_time"
    /\ ret.raised = ""
    /\ sim.use_drs
    /\ ret.value.has_drs
    /\ ret.value.modifiers.fuel_penalty > 0
    /\ ret.value.time = 0

\* C20: on an engine whose circuit (a custom one, built from any segment
\* list, included), Car, weather and driver settings were accepted, no
\* sector, lap, stint, comparison or setup-suggestion evaluation raises an
\* error.
C20_NoEvaluationFails ==
    ret.op \in {"calculate_sector_time", "simulate_full_lap", "simulate_stint",
                "compare_configurations", "get_optimal_setup_suggestions"}
        => ret.raised = ""

ValidateReturned == ret.op = "validate_inputs"

\* The message of the first check that fails, in the order circuit,
\* compound, weather, fuel; "" when none fails.
FirstFailingCheck(circuit, tire_compound, fuel_load, weather) ==
    CASE circuit \notin DOMAIN circuits -> "Circuit not found"
      [] circuit \in DOMAIN circuits /\ tire_compound \notin DOMAIN tire_compounds
           -> "Tire compound not found"
      [] /\ circuit \in DOMAIN circuits
         /\ tire_compound \in DOMAIN tire_compounds
         /\ weather \notin DOMAIN weather_conditions
           -> "Weather condition not found"
      [] /\ circuit \in DOMAIN circuits
         /\ tire_compound \in DOMAIN tire_compounds
         /\ weather \in DOMAIN weather_conditions
         /\ (fuel_load < 0 \/ fuel_load > 110)
           -> "Fuel load must be between 0 and 110 kg"
      [] OTHER -> ""

\* C21: validate_inputs never raises; it returns (True, "") exactly when the
\* circuit, compound and weather names are in the reference data and the
\* fuel load is in 0..110, and otherwise (False, message of the first
\* failing check in the order circuit, compound, weather, fuel); it accepts
\* exactly the inputs for which Circuit, Car and LapSimulator all succeed.
C21_ValidateInputsAgreesWithConstructors ==
    ValidateReturned =>
        LET circuit == ret.args[1]
            tire_compound == ret.args[2]
            fuel_load == ret.args[3]
            weather == ret.args[4]
            is_valid == ret.value[1]
            message == ret.value[2]
        IN  /\ ret.raised = ""
            /\ is_valid <=> /\ circuit \in DOMAIN circuits
                            /\ tire_compound \in DOMAIN tire_compounds
                            /\ weather \in DOMAIN weather_conditions
                            /\ 0 <= fuel_load /\ fuel_load <= 110
            /\ is_valid <=> message = ""
            /\ message = FirstFailingCheck(circuit, tire_compound, fuel_load,
                                           weather)
            /\ is_valid <=> /\ ~Raised(Circuit(circuit))
                            /\ ~Raised(NewCar(tire_compound, fuel_load))
                            /\ ~Raised(LapSimulator(Circuit(circuit), "self",
                                                    weather))

\* C21 happens: validate_inputs was given a compound that is not in the
\* reference data together with a fuel load above 110 and reported the
\* compound.
C21_Witness ==
    /\ ValidateReturned
    /\ ret.args = <<"monza", "slick", 111, "snow">>
    /\ ret.value = <<FALSE, "Tire compound not found">>

\* The step that evaluates sector number n under lap number l and gets the
\* result r: a call of calculate_sector_time that returns, or an iteration
\* of the loop of simulate_full_lap that does not raise.
SectorEvaluated(n, l, r) ==
    \/ /\ ret'.op = "calculate_sector_time"
       /\ calls' # calls
       /\ ret'.raised = ""
       /\ ret'.args = <<n, l>>
       /\ r = ret'.value
    \/ /\ pc.op = "simulate_full_lap"
       /\ pc.lap.sector_num = n
       /\ pc.lap.lap_number = l
       /\ \/ /\ pc'.op = "simulate_full_lap"
             /\ r = pc'.lap.sector_results[n]
          \/ /\ LapReturned'
             /\ r = ret'.value.sector_results[n]

\* The tire temperature after the sectors 1..n entered at temp.
RECURSIVE TemperatureAfterSectors(_, _, _)

TemperatureAfterSectors(temp, circuit, n) ==
    IF n = 0 THEN temp
    ELSE TemperatureAfter(TemperatureAfterSectors(temp, circuit, n - 1),
                          Get(get_sector_data(circuit, n), "type", "medium_speed"))

\* The results r a step can evaluate a sector to: those in the next state.
SectorResultsOfStep ==
    {ret'.value} \cup
    (IF pc'.op = "simulate_full_lap"
     THEN {pc'.lap.sector_results[i] : i \in 1..Len(pc'.lap.sector_results)}
     ELSE {}) \cup
    (IF LapReturned'
     THEN {ret'.value.sector_results[i] : i \in 1..Len(ret'.value.sector_results)}
     ELSE {})

DrawAt(k) == rng.tape[((rng.pos + k - 1) % Len(rng.tape)) + 1]

\* The number of variance draws of a sector evaluation: one when the
\* variance is positive.
VarianceDraws == IF sim.simulation_variance > 0 THEN 1 ELSE 0

\* The mistake draw, the one after the variance draws, is below the mistake
\* probability 0.15 * aggression.
MistakeDrawn == DrawAt(VarianceDraws + 1) * 100 < sim.driver_aggression * 15

\* The time the sector n has under lap number l without variance and
\* without a mistake.
TimeWithoutRandomness(n, l) ==
    calculate_sector_time([sim EXCEPT !.simulation_variance = 0], cars[sim.car],
                          [tape |-> <<FS - 1>>, pos |-> 0], n, l).result.time

\* C23 as claimed: every sector evaluation takes exactly two draws from the
\* random source.
C23_ExactlyTwoDraws ==
    [][ \A n \in 1..3, l \in 1..MaxLap, r \in SectorResultsOfStep :
            SectorEvaluated(n, l, r) =>
                /\ rng'.tape = rng.tape
                /\ rng'.pos = (rng.pos + 2) % Len(rng.tape)
      ]_vars

\* C23: a sector evaluation draws from the random source in a fixed order:
\* the variance draw, only when the variance is positive; then the mistake
\* draw; then, only when the mistake draw is below the mistake probability,
\* the draw of the size of the mistake.  So it takes two draws with a
\* positive variance and no mistake, three with a mistake, and one fewer
\* with the variance 0.
C23_DrawsInOrderVarianceMistakeSize ==
    [][ \A n \in 1..3, l \in 1..MaxLap, r \in SectorResultsOfStep :
            SectorEvaluated(n, l, r) =>
                LET draws == VarianceDraws + 1 + (IF MistakeDrawn THEN 1 ELSE 0)
                    mistake_time == IF MistakeDrawn
                                    THEN r.modifiers.driver_mistake ELSE 0
                    variance == IF VarianceDraws = 1
                                THEN random_uniform(-sim.simulation_variance,
                                         sim.simulation_variance, DrawAt(1))
                                ELSE 0
                IN  /\ rng'.tape = rng.tape
                    /\ rng'.pos = (rng.pos + draws) % Len(rng.tape)
                    /\ MistakeDrawn <=> "driver_mistake" \in DOMAIN r.modifiers
                    /\ r.time - mistake_time
                           = (TimeWithoutRandomness(n, l) * (FS + variance)) \div FS
                    /\ MistakeDrawn =>
                           mistake_time
                               = ((r.time - mistake_time)
                                  * random_uniform(500, 1500, DrawAt(draws))) \div FS
      ]_vars

\* C23 happens: with the variance 0.02 and a mistake probability above 0 a
\* first sector was evaluated from the start of the tape; its mistake draw,
\* the second of the tape, was below the probability, and the random source
\* is three draws on.
C23_Witness ==
    /\ ret.op = "calculate_sector_time"
    /\ ret.raised = ""
    /\ sim.simulation_variance = 200
    /\ sim.driver_aggression = 5000
    /\ "driver_mistake" \in DOMAIN ret.value.modifiers
    /\ rng.pos = 3
    /\ calls = 1

\* The variance and the aggression, hence the mistake probability, are 0.
RandomnessDisabled == sim.simulation_variance = 0 /\ sim.driver_aggression = 0

\* Two simulate_full_lap calls returned one after the other on the same
\* engine settings, with the same lap number and from the same tire
\* temperature, the random source at different draws.
SameLapOtherDraws ==
    /\ Len(laps_log) = 2
    /\ laps_log[1].result.lap_number = laps_log[2].result.lap_number
    /\ laps_log[1].car.tire_temperature = laps_log[2].car.tire_temperature
    /\ laps_log[1].rng # laps_log[2].rng

\* C24: with the variance 0 and the aggression 0 a sector evaluation adds no
\* driver mistake and returns what it returns with any other random source,
\* and two laps from the same Car state with the random source at different
\* draws return the same dictionary; with the variance 0 alone the time
\* before the mistake is the time without randomness, mistakes remaining
\* possible, and with the aggression 0 alone no mistake is added, the
\* variance remaining applied.
C24_DisabledRandomnessIgnoresSource ==
    [][ /\ \A n \in 1..3, l \in 1..MaxLap, r \in SectorResultsOfStep :
              SectorEvaluated(n, l, r) =>
                /\ RandomnessDisabled =>
                      \A source \in RandomSources :
                          calculate_sector_time(sim, cars[sim.car], source,
                                                n, l).result = r
                /\ sim.driver_aggression = 0 =>
                      "driver_mistake" \notin DOMAIN r.modifiers
                /\ sim.simulation_variance = 0 =>
                      r.time - (IF "driver_mistake" \in DOMAIN r.modifiers
                                THEN r.modifiers.driver_mistake ELSE 0)
                          = TimeWithoutRandomness(n, l)
        /\ (RandomnessDisabled' /\ SameLapOtherDraws') =>
              laps_log'[1].result = laps_log'[2].result
      ]_vars

\* C24 happens: with the variance 0 and the aggression 0 two laps with the
\* same lap number returned one after the other from the same tire
\* temperature, the second from other draws than the first, and no sector of
\* either has a driver mistake.
C24_Witness ==
    /\ RandomnessDisabled
    /\ SameLapOtherDraws
    /\ laps_log[1].rng.pos = 0
    /\ laps_log[2].rng.pos = 2
    /\ laps_log[1].result.total_time > 0
    /\ \A i \in 1..2 : \A j \in 1..Len(laps_log[i].result.sector_results) :
           "driver_mistake" \notin DOMAIN laps_log[i].result.sector_results[j].modifiers

\* Each of the two can be disabled alone: with the variance 0 and an
\* aggression above 0 a sector got a driver mistake.
MistakeWithoutVariance ==
    /\ ret.op = "calculate_sector_time"
    /\ ret.raised = ""
    /\ sim.simulation_variance = 0
    /\ "driver_mistake" \in DOMAIN ret.value.modifiers

\* The compound is not in the optimal_tire list of the weather data.
Suboptimal(tire_compound, weather_data) ==
    \A i \in 1..Len(weather_data.optimal_tire) :
        weather_data.optimal_tire[i] # tire_compound

\* The list has no element twice.
NoDuplicates(list) ==
    \A i, j \in 1..Len(list) : list[i] = list[j] => i = j

\* C25: a sector result has exactly one warning when the Car's compound is
\* not in the optimal_tire list of the engine's weather and none otherwise;
\* apply_weather_effect gives a warning in exactly that case and then its
\* time, the mistake term apart, is 1.15 times the time it gives when the
\* compound is in the list; the warnings of a lap result have no duplicates:
\* one entry when its sectors warned, however many of them, and none
\* otherwise.
C25_OneWarningPerSectorAndLap ==
    [][ /\ \A n \in 1..3, l \in 1..MaxLap, r \in SectorResultsOfStep :
              SectorEvaluated(n, l, r) =>
                  Len(r.warnings) =
                      IF Suboptimal(cars[sim.car].tire_compound, sim.current_weather)
                      THEN 1 ELSE 0
        /\ ret'.op = "apply_weather_effect" =>
              LET base_time == ret'.args[1]
                  weather_data == weather_conditions[ret'.args[2]]
                  tire_compound == ret'.args[3]
                  mistake_time == (base_time * weather_data.mistake_probability)
                                      \div (FS * 10)
                  suited == apply_weather_effect(base_time,
                                [weather_data EXCEPT !.optimal_tire = <<tire_compound>>],
                                tire_compound)
              IN  /\ suited[2] = ""
                  /\ ret'.value[2] # "" <=> Suboptimal(tire_compound, weather_data)
                  /\ ret'.value[1] - mistake_time =
                         IF Suboptimal(tire_compound, weather_data)
                         THEN ((suited[1] - mistake_time) * 115) \div 100
                         ELSE suited[1] - mistake_time
        /\ LapReturned' =>
              /\ NoDuplicates(ret'.value.warnings)
              /\ Len(ret'.value.warnings) <= 1
              /\ \A i \in 1..Len(ret'.value.sector_results) :
                     \A k \in 1..Len(ret'.value.sector_results[i].warnings) :
                         InList(ret'.value.sector_results[i].warnings[k],
                                ret'.value.warnings)
              /\ \A k \in 1..Len(ret'.value.warnings) :
                     \E i \in 1..Len(ret'.value.sector_results) :
                         InList(ret'.value.warnings[k],
                                ret'.value.sector_results[i].warnings)
      ]_vars

\* C25 happens: a lap of three sectors on soft tires in heavy rain returned;
\* each of its sectors has one warning, and the lap has one.
C25_Witness ==
    /\ LapReturned
    /\ cars.self.tire_compound = "soft"
    /\ sim.weather = "heavy_rain"
    /\ Len(ret.value.sector_results) = 3
    /\ \A i \in 1..3 : Len(ret.value.sector_results[i].warnings) = 1
    /\ ret.value.warnings
           = <<"Suboptimal tire compound for Heavy Rain conditions">>

\* The DRS benefit of a sector type, in milliseconds.
DrsBenefitOf(type) ==
    CASE type = "high_speed"   -> 800
      [] type = "medium_speed" -> 400
      [] type = "low_speed"    -> 100
      [] OTHER                 -> 400

\* The circuit has a DRS zone bound to sector number n.
ZoneIn(n) ==
    \E i \in 1..Len(sim.circuit.drs_zones) : sim.circuit.drs_zones[i].sector = n

\* The time of sector n under lap number l after tire grip, fuel weight,
\* aerodynamics and engine power, on the Car car after its tire update.
TimeBeforeDrsOf(car, n, sector_data) ==
    apply_engine_power(
        apply_aerodynamics(
            apply_fuel_weight(
                apply_tire_grip(get_sector_base_time(sim.circuit, n),
                                get_tire_performance(car, <<car.current_lap>>)),
                get_fuel_effect(car, sim.circuit.length),
                get_total_sectors(sim.circuit)),
            sector_data, get_aerodynamic_balance(car)),
        get_engine_performance(car))

TimeBeforeDrs(n, l) ==
    TimeBeforeDrsOf(sector_car(cars[sim.car], l, get_sector_data(sim.circuit, n)),
                    n, get_sector_data(sim.circuit, n))

\* The time returned for a sector whose time after the DRS step is t: what
\* weather, track condition, driver and the draws make of t, not below 0.
TimeReturnedFor(t) ==
    Max(0, apply_randomness(
               apply_track_and_driver(
                   apply_weather_effect(t, sim.current_weather,
                                        cars[sim.car].tire_compound)[1],
                   sim),
               sim, rng).time)

\* C26: the time of a sector is the time made of its time before the DRS
\* step less the benefit of its type when DRS is enabled and the circuit has
\* a zone bound to its number, and the time made of its time before the DRS
\* step, nothing subtracted, when DRS is disabled or there is no such zone,
\* as on every sector of a custom circuit; calculate_drs_benefit returns
\* 0.8, 0.4 and 0.1 s for high, medium and low speed, 0.4 s for any other
\* type and for none, and 0 without DRS.
C26_DrsBenefitOnlyInEnabledZones ==
    [][ /\ \A n \in 1..3, l \in 1..MaxLap, r \in SectorResultsOfStep :
              SectorEvaluated(n, l, r) =>
                /\ r.has_drs <=> ZoneIn(n)
                /\ (sim.use_drs /\ ZoneIn(n)) =>
                      r.time = TimeReturnedFor(
                                   TimeBeforeDrs(n, l)
                                   - DrsBenefitOf(Get(r.sector_data, "type",
                                                      "medium_speed")))
                /\ ~(sim.use_drs /\ ZoneIn(n)) =>
                      r.time = TimeReturnedFor(TimeBeforeDrs(n, l))
                /\ sim.circuit.name = "custom" => ~ZoneIn(n)
        /\ ret'.op = "calculate_drs_benefit" =>
              ret'.value = IF ret'.args[2]
                           THEN DrsBenefitOf(Get(ret'.args[1], "type",
                                                 "medium_speed"))
                           ELSE 0
      ]_vars

\* C26 happens: with DRS enabled the third sector of Monaco, low speed with
\* a DRS zone, was evaluated after its second, which has no zone.
C26_Witness ==
    /\ LapReturned
    /\ sim.use_drs
    /\ sim.circuit.name = "monaco"
    /\ ~ret.value.sector_results[2].has_drs
    /\ ret.value.sector_results[3].has_drs
    /\ ret.value.sector_results[3].sector_data.type = "low_speed"

\* On a custom circuit with DRS enabled a sector was evaluated: it has no
\* DRS zone.
CustomSectorWithDrsEnabled ==
    /\ ret.op = "calculate_sector_time"
    /\ ret.raised = ""
    /\ sim.use_drs
    /\ sim.circuit.name = "custom"
    /\ ~ret.value.has_drs

\* The sum of the speed estimates of the segments of the circuit.
SpeedEstimatesOfSegments(circuit) ==
    SumSeq([i \in 1..Len(circuit.sectors) |->
               get_average_speed_estimate(circuit, circuit.sectors[i].number)])

\* The downforce for a circuit whose segments have the mean speed estimate
\* total / n: 3 above 220, 8 below 140, 5 otherwise.
DownforceForMean(total, n) ==
    IF total > 220 * n THEN 3 ELSE IF total < 140 * n THEN 8 ELSE 5

\* C27: get_optimal_setup_suggestions returns, in every weather and for
\* every setup of the Car, the downforce 3 when the mean of the speed
\* estimates of the circuit's segments is above 220, 8 when it is below 140
\* and 5 otherwise, with one rationale, the engine mode race and the ERS
\* deployment auto.
C27_AdvisoryFollowsMeanSegmentSpeed ==
    ret.op = "get_optimal_setup_suggestions" =>
        /\ ret.raised = ""
        /\ ret.value.recommended_setup.downforce
               = DownforceForMean(SpeedEstimatesOfSegments(sim.circuit),
                                  Len(sim.circuit.sectors))
        /\ Len(ret.value.reasoning) = 1
        /\ ret.value.recommended_setup.engine_mode = "race"
        /\ ret.value.recommended_setup.ers_deployment = "auto"

\* C28: get_tire_performance, for the Car's current lap or for any other lap
\* number, get_engine_performance, get_aerodynamic_balance and
\* get_fuel_effect leave every field of the Car as it was; update_tire_state
\* sets the lap index to its lap number and moves the tire temperature by
\* the delta of the sector type, and leaves every other field as it was; and
\* no other operation of the Car changes the lap index or the tire
\* temperature.
C28_QueriesLeaveCarOnlyTireUpdateMovesIt ==
    [][ /\ ret'.op \in {"get_tire_performance", "get_engine_performance",
                        "get_aerodynamic_balance", "get_fuel_effect"}
           => cars' = cars
        /\ ret'.op = "update_tire_state" =>
              /\ cars'.self = [cars.self EXCEPT
                    !.current_lap = ret'.args[1],
                    !.tire_temperature =
                        TemperatureAfter(cars.self.tire_temperature, ret'.args[2])]
              /\ cars'.temp = cars.temp
        /\ ( \/ cars'.self.current_lap # cars.self.current_lap
             \/ cars'.self.tire_temperature # cars.self.tire_temperature )
           => ret'.op = "update_tire_state"
      ]_vars

\* C28 happens: the tire performance was asked for lap 7 of a Car whose
\* tire state had been updated to lap 2 and 93 degrees and whose setup had
\* been changed; the Car is still at lap 2 and 93 degrees.
C28_Witness ==
    /\ ret.op = "get_tire_performance"
    /\ ret.args = << <<7>> >>
    /\ ret.value.lap_number = 7
    /\ cars.self.current_lap = 2
    /\ cars.self.tire_temperature = 93
    /\ cars.self.downforce_level = 3

\* compare_configurations is evaluating a candidate.
EvaluatingCandidate == pc.op = "compare_configurations"

\* C29: while compare_configurations evaluates a candidate, the engine it
\* evaluates it on has the circuit, weather, track condition, driver
\* aggression, DRS setting and variance of the engine it was called on; the
\* lap has the number 1, and the candidate's Car enters it at lap 1 and at
\* the tire temperature of a new Car.
C29_CandidatesUnderEngineSettings ==
    EvaluatingCandidate =>
        /\ temp_sim.circuit = sim.circuit
        /\ temp_sim.weather = sim.weather
        /\ temp_sim.current_weather = sim.current_weather
        /\ temp_sim.track_condition = sim.track_condition
        /\ temp_sim.driver_aggression = sim.driver_aggression
        /\ temp_sim.use_drs = sim.use_drs
        /\ temp_sim.simulation_variance = sim.simulation_variance
        /\ pc.lap.lap_number = 1
        /\ pc.lap.sector_num = 1 =>
               /\ cars.temp.current_lap = 1
               /\ cars.temp.tire_temperature = 90

\* Two get_tire_performance calls returned one after the other, the second
\* for a later lap than the first.
LaterLapAsked ==
    /\ TirePerformanceReturned
    /\ TirePerformanceReturned'
    /\ cars'.self.tire_compound = cars.self.tire_compound
    /\ ret.value.lap_number >= 1
    /\ ret.value.lap_number < ret'.value.lap_number

\* The peak-performance laps of the Car's compound.
PeakLaps == tire_compounds[cars.self.tire_compound].peak_performance_laps

\* C30 as claimed: for laps 1 <= a < b the degradation multiplier
\* get_tire_performance returns for lap b is at most the one for lap a.
C30_MultiplierNeverRises ==
    [][ LaterLapAsked =>
            ret'.value.degradation_multiplier <= ret.value.degradation_multiplier
      ]_vars

\* C30: for laps a < b with a at or beyond the peak-performance laps of the
\* compound the degradation multiplier for lap b is at most the one for lap
\* a; for laps a < b up to the peak-performance laps it is greater for lap b
\* than for lap a, the tires warming up to the multiplier 1.0 at the peak.
C30_MultiplierFallsOnlyFromPeak ==
    [][ LaterLapAsked =>
            /\ ret.value.lap_number >= PeakLaps =>
                   ret'.value.degradation_multiplier
                       <= ret.value.degradation_multiplier
            /\ ret'.value.lap_number <= PeakLaps =>
                   ret'.value.degradation_multiplier
                       > ret.value.degradation_multiplier
            /\ ret'.value.lap_number = PeakLaps =>
                   ret'.value.degradation_multiplier = FS
      ]_vars

\* C30 happens: the medium compound, four peak-performance laps, was asked
\* for lap 2 and has the multiplier 0.975, above the 0.9625 of lap 1.
C30_Witness ==
    /\ TirePerformanceReturned
    /\ cars.self.tire_compound = "medium"
    /\ ret.value.lap_number = 2
    /\ ret.value.degradation_multiplier = 9750
    /\ get_tire_performance(cars.self, <<1>>).degradation_multiplier = 9625

=============================================================================
